---- MODULE Spec2Model ----
(***************************************************************************)
(* Model of vscode/src/azure/workspaceActions.ts: the Azure Quantum        *)
(* workspace actions of the Q# VS Code extension (getRandomGuid,           *)
(* queryWorkspaces, submitJob).                                            *)
(*                                                                         *)
(* A text is a sequence of string tokens (single characters where the      *)
(* code looks at characters, longer tokens where it only copies them).     *)
(* A JavaScript value that may be undefined is a record with a def flag.   *)
(* Every operation is one async function; each action is the code that     *)
(* runs between two awaits, and `trace` logs what the function did to the  *)
(* outside world (prompts, requests, messages) in the order it did it.     *)
(***************************************************************************)
EXTENDS Integers, Sequences, FiniteSets, TLC

VARIABLES
    pc,             \* position of the running async function
    trace,          \* externally visible events, in order
    outcome,        \* "running", "returned" or "threw"
    returned,       \* the value returned (Undefined for a bare return)
    bytes,          \* getRandomGuid: the 16 random bytes drawn
    guid,           \* getRandomGuid: the string returned
    containerName,  \* submitJob: const containerName
    jobName,        \* submitJob: const jobName
    shotsBox,       \* submitJob: text in the "Number of shots" input box
    shotsError,     \* submitJob: validation message shown for shotsBox
    shotsResult,    \* submitJob: what the shots input box resolved to
    numberOfShots,  \* submitJob: const numberOfShots
    sasResponse,    \* submitJob: const sasResponse
    qw,             \* queryWorkspaces: its local variables
    connection,     \* queryWorkspace: the WorkspaceConnection it is given
    rf,             \* queryWorkspace: its local variables
    server,         \* queryWorkspace: what the data plane answers with
    sortTies,       \* queryWorkspace: how Array.sort orders equal creationTimes
    snapshots,      \* queryWorkspace: the connection at the start and at each return
    called,         \* the exported function that was called
    jf,             \* getJobFiles: its parameters and local variables
    conc,           \* two queryWorkspace calls running on one connection
    py              \* getPythonCodeForWorkspace: its parameters and locals

guidVars == <<bytes, guid>>
discoveryVars == <<qw>>
refreshVars == <<connection, rf, server, sortTies, snapshots>>
submitVars == <<containerName, jobName, shotsBox, shotsError, shotsResult,
                numberOfShots, sasResponse>>
otherVars == <<called, jf, conc, py>>
ctlVars == <<pc, trace, outcome, returned>>
vars == <<pc, trace, outcome, returned, bytes, guid, containerName, jobName,
          shotsBox, shotsError, shotsResult, numberOfShots, sasResponse, qw,
          connection, rf, server, sortTies, snapshots, called, jf,
          conc, py>>

----------------------------------------------------------------------------
(* JavaScript values *)

Undefined == [def |-> FALSE]
Some(v) == [def |-> TRUE, val |-> v]

\* a || b for a string-or-undefined a: undefined and "" are falsy
OrElse(a, b) == IF a.def /\ a.val # <<>> THEN a ELSE Some(b)

NaN == [nan |-> TRUE]
Num(neg, m, e) == [nan |-> FALSE, neg |-> neg, m |-> m, e |-> e]

Digits == <<"0", "1", "2", "3", "4", "5", "6", "7", "8", "9">>
HexDigits == <<"0", "1", "2", "3", "4", "5", "6", "7", "8", "9",
               "a", "b", "c", "d", "e", "f">>

RECURSIVE IndexIn(_, _, _)
\* 0-based index of c in the digit table from position i on, -1 when absent
IndexIn(table, c, i) ==
    IF i > Len(table) THEN -1
    ELSE IF table[i] = c THEN i - 1
    ELSE IndexIn(table, c, i + 1)

IsDigit(c) == IndexIn(Digits, c, 1) >= 0
IsHexDigit(c) == IndexIn(HexDigits, c, 1) >= 0
\* the value of a hex (or decimal) digit
HexValue(c) == IndexIn(HexDigits, c, 1)

\* String.prototype.substring(a, b) on 0-based positions; b is clamped to the
\* length of s
Substring(s, a, b) == SubSeq(s, a + 1, IF b > Len(s) THEN Len(s) ELSE b)

RECURSIVE IndexOf(_, _, _)
\* String.prototype.indexOf: 0-based position of token c at or after i, or -1
IndexOf(s, c, i) ==
    IF i >= Len(s) THEN -1
    ELSE IF s[i + 1] = c THEN i
    ELSE IndexOf(s, c, i + 1)

StartsWith(s, p) == Len(p) <= Len(s) /\ SubSeq(s, 1, Len(p)) = p

----------------------------------------------------------------------------
(* parseFloat, parseInt, Math.floor on decimal numerals *)

RECURSIVE Pow10(_)
Pow10(n) == IF n <= 0 THEN 1 ELSE 10 * Pow10(n - 1)

RECURSIVE Norm(_)
\* a number m * 10^e with the trailing zeros of m moved into e, so that two
\* numbers are equal exactly when their records are
Norm(v) ==
    IF v.m = 0 THEN [v EXCEPT !.e = 0]
    ELSE IF v.m % 10 = 0 THEN Norm([v EXCEPT !.m = @ \div 10, !.e = @ + 1])
    ELSE v

Number(neg, m, e) == Norm(Num(neg, m, e))

IsNaN(v) == v.nan

RECURSIVE DigitRun(_, _)
\* how many decimal digits s holds from 1-based position i on
DigitRun(s, i) ==
    IF i <= Len(s) /\ IsDigit(s[i]) THEN 1 + DigitRun(s, i + 1) ELSE 0

RECURSIVE HexRun(_, _)
HexRun(s, i) ==
    IF i <= Len(s) /\ IsHexDigit(s[i]) THEN 1 + HexRun(s, i + 1) ELSE 0

RECURSIVE RadixValue(_, _, _, _)
\* the value of the n digits of s from position i on, in the given radix
RadixValue(s, i, n, radix) ==
    IF n = 0 THEN 0
    ELSE RadixValue(s, i, n - 1, radix) * radix + HexValue(s[i + n - 1])

HasSign(s) == Len(s) >= 1 /\ s[1] \in {"-", "+"}

\* parseFloat: the longest prefix that is a StrDecimalLiteral
\* ([sign] digits [. [digits]] [e [sign] digits], or [sign] . digits [...]);
\* NaN when there is none
parseFloat(s) ==
    LET neg == Len(s) >= 1 /\ s[1] = "-"
        p0 == IF HasSign(s) THEN 2 ELSE 1
        ni == DigitRun(s, p0)
        p1 == p0 + ni
        hasDot == p1 <= Len(s) /\ s[p1] = "."
        nf == IF hasDot THEN DigitRun(s, p1 + 1) ELSE 0
        p2 == IF hasDot /\ (ni > 0 \/ nf > 0) THEN p1 + 1 + nf ELSE p1
        hasE == p2 <= Len(s) /\ s[p2] \in {"e", "E"}
        esign == hasE /\ p2 + 1 <= Len(s) /\ s[p2 + 1] \in {"-", "+"}
        pe == IF esign THEN p2 + 2 ELSE p2 + 1
        ne == IF hasE THEN DigitRun(s, pe) ELSE 0
        exp == IF ne = 0 THEN 0
               ELSE IF esign /\ s[p2 + 1] = "-" THEN 0 - RadixValue(s, pe, ne, 10)
               ELSE RadixValue(s, pe, ne, 10)
        mant == RadixValue(s, p0, ni, 10) * Pow10(nf)
                + RadixValue(s, p1 + 1, nf, 10)
    IN  IF ni = 0 /\ nf = 0 THEN NaN ELSE Number(neg, mant, exp - nf)

\* parseInt with no radix: [sign] then 0x/0X and hex digits, or decimal digits;
\* NaN when no digit follows
parseInt(s) ==
    LET neg == Len(s) >= 1 /\ s[1] = "-"
        p0 == IF HasSign(s) THEN 2 ELSE 1
        hex == p0 + 1 <= Len(s) /\ s[p0] = "0" /\ s[p0 + 1] \in {"x", "X"}
        n == IF hex THEN HexRun(s, p0 + 2) ELSE DigitRun(s, p0)
    IN  IF n = 0 THEN NaN
        ELSE IF hex THEN Number(neg, RadixValue(s, p0 + 2, n, 16), 0)
        ELSE Number(neg, RadixValue(s, p0, n, 10), 0)

\* Math.floor of a number (not NaN)
MathFloor(v) ==
    IF v.e >= 0 THEN v
    ELSE LET signed == IF v.neg THEN 0 - v.m ELSE v.m
             q == signed \div Pow10(0 - v.e)
         IN  Number(q < 0, IF q < 0 THEN 0 - q ELSE q, 0)

----------------------------------------------------------------------------
(* getRandomGuid *)

ByteMax == 255

RECURSIVE BitAnd(_, _)
BitAnd(a, b) ==
    IF a = 0 \/ b = 0 THEN 0
    ELSE (a % 2) * (b % 2) + 2 * BitAnd(a \div 2, b \div 2)

RECURSIVE BitOr(_, _)
BitOr(a, b) ==
    IF a = 0 THEN b
    ELSE IF b = 0 THEN a
    ELSE (IF a % 2 = 1 \/ b % 2 = 1 THEN 1 ELSE 0) + 2 * BitOr(a \div 2, b \div 2)

RECURSIVE ToString16(_)
\* Number.prototype.toString(16) of a non-negative integer
ToString16(n) ==
    IF n < 16 THEN <<HexDigits[n + 1]>>
    ELSE ToString16(n \div 16) \o <<HexDigits[(n % 16) + 1]>>

RECURSIVE PadStart(_, _, _)
\* String.prototype.padStart(len, fill) for a one-character fill
PadStart(s, len, fill) ==
    IF Len(s) >= len THEN s ELSE PadStart(<<fill>> \o s, len, fill)

HexNoPad(byte) == ToString16(byte)

\* the reduce callback's contribution for one byte
HexOfByte(byte) == PadStart(ToString16(byte), 2, "0")

RECURSIVE HexOfBytes(_, _)
\* bytes.reduce((acc, byte) => acc + hex(byte), "") over positions i..15
HexOfBytes(bs, i) ==
    IF i > 15 THEN <<>> ELSE HexOfByte(bs[i]) \o HexOfBytes(bs, i + 1)

\* bytes[6] = (bytes[6] & 0x0f) | 0x40
VersionOctet(b) == BitOr(BitAnd(b, 15), 64)

\* bytes[8] = (bytes[8] & 0x3f) | 0x80
VariantOctet(b) == BitOr(BitAnd(b, 63), 128)

getRandomGuid(rnd) ==
    LET bs == [rnd EXCEPT ![6] = VersionOctet(@), ![8] = VariantOctet(@)]
        hex == HexOfBytes(bs, 0)
    IN  Substring(hex, 0, 8) \o <<"-">> \o Substring(hex, 8, 12) \o <<"-">>
        \o Substring(hex, 12, 16) \o <<"-">> \o Substring(hex, 16, 20)
        \o <<"-">> \o Substring(hex, 20, 32)

\* values tried for the two octets the code rewrites, and for the others
SampleBytes == {0, 15, 64, 127, 128, 165, 255}
FillBytes == {0, 90, 255}

\* crypto.getRandomValues(new Uint8Array(16)): octet 6 and octet 8 each range
\* over every byte value while the other takes the sample values; the remaining
\* octets are f, f+37, f+74, ... (mod 256)
GuidInputs ==
    { [i \in 0..15 |-> IF i = 6 THEN a ELSE IF i = 8 THEN b
                       ELSE (f + i * 37) % (ByteMax + 1)] :
        a \in 0..ByteMax, b \in SampleBytes, f \in FillBytes }
    \cup
    { [i \in 0..15 |-> IF i = 6 THEN a ELSE IF i = 8 THEN b
                       ELSE (f + i * 37) % (ByteMax + 1)] :
        a \in SampleBytes, b \in 0..ByteMax, f \in FillBytes }

NoBytes == [i \in 0..15 |-> 0]

\* queryWorkspaces before it has assigned any of its locals;
\* getSessionResults is how each vscode.authentication.getSession call of its
\* getAuthSession calls ended, in the order of the calls
NoLocals ==
    [firstAuth |-> Undefined, tenants |-> Undefined, tenantId |-> Undefined,
     tenantAuth |-> Undefined, subs |-> Undefined, subId |-> Undefined,
     workspaces |-> Undefined, workspace |-> Undefined, choice |-> Undefined,
     getSessionResults |-> <<>>]

\* queryWorkspace before it has assigned any of its locals; getSessionResults
\* is how each getSession call of its getAuthSession call ended, atEntry the
\* connection as it was when the call began
NoRefreshLocals ==
    [token |-> Undefined, providerStatus |-> Undefined, jobs |-> Undefined,
     getSessionResults |-> <<>>, atEntry |-> Undefined]

IdleRefresh ==
    /\ connection = Undefined
    /\ rf = NoRefreshLocals
    /\ server = Undefined
    /\ sortTies = "keep"
    /\ snapshots = <<>>

\* getJobFiles, the pair of concurrent calls and getPythonCodeForWorkspace
\* when they are not the function that was called
IdleOthers ==
    /\ jf = Undefined
    /\ conc = <<>>
    /\ py = Undefined

IdleSubmit ==
    /\ containerName = <<>>
    /\ jobName = Undefined
    /\ shotsBox = <<>>
    /\ shotsError = Undefined
    /\ shotsResult = Undefined
    /\ numberOfShots = Undefined
    /\ sasResponse = Undefined

InitGuid ==
    /\ pc = "Start"
    /\ trace = <<>>
    /\ outcome = "running"
    /\ returned = Undefined
    /\ bytes \in GuidInputs
    /\ guid = <<>>
    /\ IdleSubmit
    /\ qw = NoLocals
    /\ IdleRefresh
    /\ called = "getRandomGuid"
    /\ IdleOthers

GuidCall ==
    /\ pc = "Start"
    /\ guid' = getRandomGuid(bytes)
    /\ returned' = Some(guid')
    /\ outcome' = "returned"
    /\ pc' = "Done"
    /\ UNCHANGED <<trace, bytes, otherVars, submitVars, discoveryVars, refreshVars>>

NextGuid == GuidCall

SpecGuid == InitGuid /\ [][NextGuid]_vars

----------------------------------------------------------------------------
(* submitJob *)

MaxShotsLen == 3

ShotChars == {"0", "1", "-", ".", "e", "x"}

\* what the "Job name" box can resolve to (undefined: dismissed with Esc)
JobNameResults == {Undefined, Some(<<"job1">>)}

\* the random bytes drawn by the getRandomGuid call of one submission
RandomSeeds == { [i \in 0..15 |-> (f + i * 37) % (ByteMax + 1)] :
                 f \in {0, 90} }

\* sasUri values the data plane can answer with
SasUris ==
    { <<"https", "://", "acct1.blob.core.windows.net", "/", "c", "?",
        "sv=2023", "&", "sig=abc">>,
      <<"https", "://", "acct2.blob.core.windows.net", "/", "c", "?",
        "se=2024%2D01", "&", "sig=x%2Fy">> }

\* decodeURI of one token: %2D is decoded, the reserved %2F is kept
DecodeToken(t) == IF t = "se=2024%2D01" THEN "se=2024-01" ELSE t

decodeURI(uri) == [i \in 1..Len(uri) |-> DecodeToken(uri[i])]

\* vscode.Uri.parse(...).scheme and .authority
UriScheme(uri) == IF Len(uri) >= 2 /\ uri[2] = "://" THEN uri[1] ELSE ""
UriAuthority(uri) ==
    IF Len(uri) >= 3 /\ uri[2] = "://" /\ uri[3] \notin {"/", "?", "#"}
    THEN uri[3] ELSE ""

\* `${x}` of a string-or-undefined x
Template(x) == IF x.def THEN x.val ELSE <<"undefined">>

\* QuantumUris.sasUri() and QuantumUris.jobs(jobId)
QuantumUrisSasUri == <<"{endpoint}", "{workspace.id}", "/storage/sasUri">>
QuantumUrisJobs(jobId) == <<"{endpoint}", "{workspace.id}", "/jobs/">> \o jobId

\* how an awaited azureRequest / storageRequest can end
azureRequestOutcomes == {"ok", "throws"}
storageRequestOutcomes == {"ok", "throws"}

\* the events a function leaves in `trace`
Prompt(title) == [kind |-> "prompt", title |-> title]
Request(op, fn, method, uri, token, headers, body) ==
    [kind |-> "request", op |-> op, fn |-> fn, method |-> method, uri |-> uri,
     token |-> token, headers |-> headers, body |-> body]
Response(op, result) == [kind |-> "response", op |-> op, ok |-> result = "ok"]
Message(text) == [kind |-> "message", text |-> text]
Returned(v) == [kind |-> "return", val |-> v]
Thrown == [kind |-> "throw"]

NoBody == [none |-> TRUE]
NoToken == <<>>

\* the token parameter of submitJob
SubmitToken == <<"{token}">>

\* JSON.stringify of a number: NaN is written as null
JsonNull == [null |-> TRUE]
JsonNumber(v) == IF IsNaN(v) THEN JsonNull ELSE v

\* the validateInput callback of the shots prompt: the message, or undefined
validateShotsInput(input) ==
    LET result == parseFloat(input)
    IN  IF IsNaN(result) \/ MathFloor(result) # result
        THEN Some(<<"Number of shots must be an integer">>)
        ELSE Undefined

\* (await showInputBox(...)) || "100"
ShotsOrDefault(r) == OrElse(r, <<"1", "0", "0">>)

SasBodyOtherGuid(name) == [containerName |-> getRandomGuid(NoBytes)]

\* body of the SAS request: JSON.stringify({ containerName })
SasBody(name) == [containerName |-> name]

StorageAccount(sasUriObj) ==
    <<UriScheme(sasUriObj), "://", UriAuthority(sasUriObj)>>

\* sasResponse.sasUri.substring(sasResponse.sasUri.indexOf("?") + 1)
SasTokenRaw(rawUri) == Substring(rawUri, IndexOf(rawUri, "?", 0) + 1, Len(rawUri))

ContainerPutUri(storageAccount, name, sasTokenRaw) ==
    storageAccount \o <<"/">> \o name \o <<"?", "restype=container", "&">>
    \o sasTokenRaw

InputDataUriNoSas(storageAccount, name, sasTokenRaw) ==
    storageAccount \o <<"/">> \o name \o <<"/", "inputData">>

InputDataUri(storageAccount, name, sasTokenRaw) ==
    storageAccount \o <<"/">> \o name \o <<"/", "inputData", "?">> \o sasTokenRaw

BlobHeaders == << <<"x-ms-blob-type", "BlockBlob">> >>

InputParamsFloatShots(shots) ==
    [entryPoint |-> "ENTRYPOINT__main",
     arguments |-> <<>>,
     count |-> parseInt(shots),
     shots |-> parseFloat(shots)]

InputParams(shots) ==
    [entryPoint |-> "ENTRYPOINT__main",
     arguments |-> <<>>,
     count |-> parseInt(shots),
     shots |-> parseInt(shots)]

Payload(name, displayName, rawSasUri, storageAccount, shots) ==
    [id |-> name,
     name |-> displayName,
     providerId |-> "{providerId}",
     target |-> "{target}",
     itemType |-> "Job",
     containerUri |-> rawSasUri,
     inputDataUri |-> storageAccount \o <<"/">> \o name \o <<"/", "inputData">>,
     inputDataFormat |-> "qir.v1",
     outputDataFormat |-> "microsoft.quantum-results.v1",
     inputParams |-> InputParams(shots)]

JsonPayload(p) ==
    [p EXCEPT !.inputParams.count = JsonNumber(@),
              !.inputParams.shots = JsonNumber(@)]

InitSubmit ==
    /\ pc = "Start"
    /\ trace = <<>>
    /\ outcome = "running"
    /\ returned = Undefined
    /\ bytes = NoBytes
    /\ guid = <<>>
    /\ IdleSubmit
    /\ qw = NoLocals
    /\ IdleRefresh
    /\ called = "submitJob"
    /\ IdleOthers

\* a rejected await: the exception leaves submitJob
Throw ==
    /\ outcome' = "threw"
    /\ returned' = Undefined
    /\ pc' = "Done"

Return(v) ==
    /\ outcome' = "returned"
    /\ returned' = v
    /\ pc' = "Done"

\* getRandomGuid(), then the "Job name" input box is shown
SubmitStart ==
    /\ pc = "Start"
    /\ \E seed \in RandomSeeds : containerName' = getRandomGuid(seed)
    /\ trace' = Append(trace, Prompt("Job name"))
    /\ pc' = "AwaitJobName"
    /\ UNCHANGED <<outcome, returned, guidVars, otherVars, discoveryVars, refreshVars, jobName, shotsBox, shotsError,
                   shotsResult, numberOfShots, sasResponse>>

\* the job name box resolves; the shots box is shown holding "100"
JobNameResolved ==
    /\ pc = "AwaitJobName"
    /\ \E r \in JobNameResults : jobName' = r
    /\ shotsBox' = <<"1", "0", "0">>
    /\ shotsError' = validateShotsInput(shotsBox')
    /\ trace' = Append(trace, Prompt("Number of shots"))
    /\ pc' = "AwaitShots"
    /\ UNCHANGED <<outcome, returned, guidVars, otherVars, discoveryVars, refreshVars, containerName, shotsResult,
                   numberOfShots, sasResponse>>

\* the user types one more character; the box calls validateInput on the text
ShotsTyped ==
    /\ pc = "AwaitShots"
    /\ Len(shotsBox) < MaxShotsLen
    /\ \E c \in ShotChars :
          /\ shotsBox' = Append(shotsBox, c)
          /\ shotsError' = validateShotsInput(shotsBox')
    /\ UNCHANGED <<ctlVars, guidVars, otherVars, discoveryVars, refreshVars, containerName, jobName, shotsResult,
                   numberOfShots, sasResponse>>

\* the user deletes the last character; the box calls validateInput on the text
ShotsErased ==
    /\ pc = "AwaitShots"
    /\ Len(shotsBox) > 0
    /\ shotsBox' = SubSeq(shotsBox, 1, Len(shotsBox) - 1)
    /\ shotsError' = validateShotsInput(shotsBox')
    /\ UNCHANGED <<ctlVars, guidVars, otherVars, discoveryVars, refreshVars, containerName, jobName, shotsResult,
                   numberOfShots, sasResponse>>

\* submitJob from the resolution r of the shots box up to its next await;
\* the box is closed
AfterShotsPrompt(r) ==
    LET shots == ShotsOrDefault(r)
    IN  /\ shotsResult' = r
        /\ numberOfShots' = shots
        /\ IF ~shots.def
           THEN /\ Return(Undefined)
                /\ trace' = Append(trace, Returned(Undefined))
           ELSE /\ trace' = Append(trace,
                       Request("SasGrant", "azureRequest", "POST",
                               QuantumUrisSasUri, SubmitToken, <<>>,
                               SasBody(containerName)))
                /\ pc' = "AwaitSas"
                /\ UNCHANGED <<outcome, returned>>
        /\ shotsBox' = <<>>
        /\ shotsError' = Undefined
        /\ UNCHANGED <<guidVars, otherVars, discoveryVars, refreshVars, containerName, jobName, sasResponse>>

\* Enter in the shots box: the box resolves to its text unless validateInput
\* returned a message for it
ShotsAccepted ==
    /\ pc = "AwaitShots"
    /\ ~shotsError.def
    /\ AfterShotsPrompt(Some(shotsBox))

\* Esc in the shots box: the box resolves to undefined
ShotsDismissed ==
    /\ pc = "AwaitShots"
    /\ AfterShotsPrompt(Undefined)

\* the SAS request ends; on success the container PUT is issued
SasResponded ==
    /\ pc = "AwaitSas"
    /\ \E result \in azureRequestOutcomes :
         /\ IF result = "throws"
            THEN /\ Throw
                 /\ trace' = trace \o <<Response("SasGrant", result), Thrown>>
                 /\ UNCHANGED sasResponse
            ELSE \E uri \in SasUris :
                 LET sasUri == decodeURI(uri)
                     storageAccount == StorageAccount(sasUri)
                     sasTokenRaw == SasTokenRaw(uri)
                 IN  /\ sasResponse' = Some([sasUri |-> uri])
                     /\ trace' = trace \o
                          << Response("SasGrant", result),
                             Request("ContainerPut", "storageRequest", "PUT",
                                     ContainerPutUri(storageAccount,
                                                     containerName, sasTokenRaw),
                                     NoToken, <<>>, NoBody) >>
                     /\ pc' = "AwaitContainerPut"
                     /\ UNCHANGED <<outcome, returned>>
    /\ UNCHANGED <<guidVars, otherVars, discoveryVars, refreshVars, containerName, jobName, shotsBox, shotsError,
                   shotsResult, numberOfShots>>

ContainerPutRespondedSkipsBlob ==
    /\ pc = "AwaitContainerPut"
    /\ \E result \in storageRequestOutcomes :
         IF result = "throws"
         THEN /\ Throw
              /\ trace' = trace \o <<Response("ContainerPut", result), Thrown>>
         ELSE LET uri == sasResponse.val.sasUri
                  storageAccount == StorageAccount(decodeURI(uri))
                  payload == Payload(containerName, jobName, uri,
                                     storageAccount, numberOfShots.val)
              IN  /\ trace' = trace \o
                       << Response("ContainerPut", result),
                          Request("JobPut", "azureRequest", "PUT",
                                  QuantumUrisJobs(containerName), SubmitToken, <<>>,
                                  JsonPayload(payload)) >>
                  /\ pc' = "AwaitJobPut"
                  /\ UNCHANGED <<outcome, returned>>
    /\ UNCHANGED <<guidVars, otherVars, discoveryVars, refreshVars, submitVars>>

\* the container PUT ends; on success the inputData blob PUT is issued
ContainerPutResponded ==
    /\ pc = "AwaitContainerPut"
    /\ \E result \in storageRequestOutcomes :
         IF result = "throws"
         THEN /\ Throw
              /\ trace' = trace \o <<Response("ContainerPut", result), Thrown>>
         ELSE LET uri == sasResponse.val.sasUri
                  storageAccount == StorageAccount(decodeURI(uri))
              IN  /\ trace' = trace \o
                       << Response("ContainerPut", result),
                          Request("BlobPut", "storageRequest", "PUT",
                                  InputDataUri(storageAccount, containerName,
                                               SasTokenRaw(uri)),
                                  NoToken, BlobHeaders, [qirFile |-> "{qirFile}"]) >>
                  /\ pc' = "AwaitBlobPut"
                  /\ UNCHANGED <<outcome, returned>>
    /\ UNCHANGED <<guidVars, otherVars, discoveryVars, refreshVars, submitVars>>

BlobPutRespondedSwallows ==
    /\ pc = "AwaitBlobPut"
    /\ \E result \in storageRequestOutcomes :
         LET uri == sasResponse.val.sasUri
             storageAccount == StorageAccount(decodeURI(uri))
             payload == Payload(containerName, jobName, uri,
                                storageAccount, numberOfShots.val)
         IN  /\ trace' = trace \o
                  << Response("BlobPut", result),
                     Request("JobPut", "azureRequest", "PUT",
                             QuantumUrisJobs(containerName), SubmitToken, <<>>,
                             JsonPayload(payload)) >>
             /\ pc' = "AwaitJobPut"
             /\ UNCHANGED <<outcome, returned>>
    /\ UNCHANGED <<guidVars, otherVars, discoveryVars, refreshVars, submitVars>>

\* the blob PUT ends; on success the job description is built and PUT
BlobPutResponded ==
    /\ pc = "AwaitBlobPut"
    /\ \E result \in storageRequestOutcomes :
         IF result = "throws"
         THEN /\ Throw
              /\ trace' = trace \o <<Response("BlobPut", result), Thrown>>
         ELSE LET uri == sasResponse.val.sasUri
                  storageAccount == StorageAccount(decodeURI(uri))
                  payload == Payload(containerName, jobName, uri,
                                     storageAccount, numberOfShots.val)
              IN  /\ trace' = trace \o
                       << Response("BlobPut", result),
                          Request("JobPut", "azureRequest", "PUT",
                                  QuantumUrisJobs(containerName), SubmitToken, <<>>,
                                  JsonPayload(payload)) >>
                  /\ pc' = "AwaitJobPut"
                  /\ UNCHANGED <<outcome, returned>>
    /\ UNCHANGED <<guidVars, otherVars, discoveryVars, refreshVars, submitVars>>

JobPutRespondedBareReturn ==
    /\ pc = "AwaitJobPut"
    /\ \E result \in azureRequestOutcomes :
         IF result = "throws"
         THEN /\ Throw
              /\ trace' = trace \o <<Response("JobPut", result), Thrown>>
         ELSE /\ trace' = trace \o
                   << Response("JobPut", result),
                      Message(<<"Job ">> \o Template(jobName)
                              \o <<" submitted">>),
                      Returned(Undefined) >>
              /\ Return(Undefined)
    /\ UNCHANGED <<guidVars, otherVars, discoveryVars, refreshVars, submitVars>>

\* the job PUT ends; on success the message is shown and the id returned
JobPutResponded ==
    /\ pc = "AwaitJobPut"
    /\ \E result \in azureRequestOutcomes :
         IF result = "throws"
         THEN /\ Throw
              /\ trace' = trace \o <<Response("JobPut", result), Thrown>>
         ELSE /\ trace' = trace \o
                   << Response("JobPut", result),
                      Message(<<"Job ">> \o Template(jobName)
                              \o <<" submitted">>),
                      Returned(Some(containerName)) >>
              /\ Return(Some(containerName))
    /\ UNCHANGED <<guidVars, otherVars, discoveryVars, refreshVars, submitVars>>

Init == InitSubmit

Next ==
    \/ SubmitStart
    \/ JobNameResolved
    \/ ShotsTyped
    \/ ShotsErased
    \/ ShotsAccepted
    \/ ShotsDismissed
    \/ SasResponded
    \/ ContainerPutResponded
    \/ BlobPutResponded
    \/ JobPutResponded

Spec == Init /\ [][Next]_vars

----------------------------------------------------------------------------
(* queryWorkspaces *)

MaxListLen == 3

\* scopes.armMgmt, and the VSCODE_TENANT:<id> scope of the second sign-in
ArmMgmt == <<"https://management.azure.com/user_impersonation">>
TenantScope(tenantId) == <<"VSCODE_TENANT:">> \o tenantId

Session(token, accountId, type) ==
    [accessToken |-> token, account |-> [id |-> accountId, type |-> type]]

\* entry i of the tenant, subscription and workspace lists the control plane
\* answers with
TenantItem(i) ==
    [tenantId |-> <<"t", Digits[i + 1]>>, displayName |-> <<"Tenant ", Digits[i + 1]>>]
SubscriptionItem(i) ==
    [subscriptionId |-> <<"s", Digits[i + 1]>>,
     displayName |-> <<"Subscription ", Digits[i + 1]>>]
\* workspace 1 has an endpoint prefixed with its name, workspace 2 has no
\* endpoint, workspace 3 is named like its region and lists the provider
\* microsoft-qc, any further one has an endpoint that does not carry its name
WorkspaceItem(subId, i) ==
    LET name == IF i = 3 THEN <<"westus">> ELSE <<"ws", Digits[i + 1]>>
    IN  [id |-> <<"/subscriptions/">> \o subId
                \o <<"/resourceGroups/", "rg", "/providers/Microsoft.Quantum/Workspaces/">>
                \o name,
         name |-> name,
         properties |->
           [endpointUri |->
              IF i \in {1, 3}
              THEN Some(<<"https://">> \o name
                        \o <<".", "westus", ".", "quantum.azure.com">>)
              ELSE IF i = 2 THEN Undefined
              ELSE Some(<<"https://", "shared", ".", "eastus", ".", "quantum.azure.com">>),
            providers |->
              IF i = 1 THEN << [providerId |-> "ionq", provisioningState |-> "Succeeded"],
                               [providerId |-> "quantinuum", provisioningState |-> "Failed"] >>
              ELSE IF i = 2 THEN <<>>
              ELSE IF i = 3
              THEN << [providerId |-> "rigetti", provisioningState |-> "Succeeded"],
                      [providerId |-> "microsoft-qc", provisioningState |-> "Succeeded"] >>
              ELSE << [providerId |-> "rigetti", provisioningState |-> "Succeeded"] >>]]

\* the list envelopes { value: [...] } a request can resolve to: no body, a
\* body without value, or a list of 0 .. MaxListLen entries
Envelopes(items) ==
    {Undefined, Some([value |-> Undefined])}
    \cup { Some([value |-> Some(SubSeq(items, 1, n))]) : n \in 0..Len(items) }

\* x?.value?.length
ListLength(env) ==
    IF env.def /\ env.val.value.def THEN Len(env.val.value.val) ELSE 0

\* sessions the first sign-in can yield: an organizational account of tenant
\* t1, a personal account whose id starts with t1, an organizational account
\* of another tenant
FirstSessions ==
    { Session(<<"token-aad-t1">>, <<"t", "1", ".", "user">>, "aad"),
      Session(<<"token-msa-t1">>, <<"t", "1", ".", "user">>, "msa"),
      Session(<<"token-aad-home">>, <<"h", "0", ".", "user">>, "aad") }

\* sessions a sign-in with the VSCODE_TENANT scope of tenantId can yield
TenantSessions(tenantId) ==
    { Session(<<"token-for-">> \o tenantId, tenantId \o <<".", "user">>, "aad") }

\* how vscode.authentication.getSession can end: it throws, or resolves to a
\* session or to undefined
GetSessionOutcomes(sessions) ==
    { [threw |-> TRUE, session |-> Undefined],
      [threw |-> FALSE, session |-> Undefined] }
    \cup { [threw |-> FALSE, session |-> Some(x)] : x \in sessions }

\* AzureUris.tenants(), .subscriptions() and .workspaces(subscriptionId)
AzureUrisTenants == <<"{arm}", "/tenants">>
AzureUrisSubscriptions == <<"{arm}", "/subscriptions">>
AzureUrisWorkspaces(subscriptionId) ==
    <<"{arm}", "/subscriptions/">> \o subscriptionId
    \o <<"/providers/Microsoft.Quantum/workspaces">>

\* the quick-pick items built from a list (lines 158-161, 204-207, 237-241)
TenantPickItem(tenant) == [label |-> tenant.displayName, detail |-> tenant.tenantId]
SubscriptionPickItem(sub) == [label |-> sub.displayName, detail |-> sub.subscriptionId]
WorkspacePickItem(worksp) ==
    [label |-> worksp.name, detail |-> worksp.id, selection |-> worksp]

\* what showQuickPick resolves to: one of the items, or undefined
PickOutcomes(pickItems) == {Undefined} \cup { Some(pickItems[k]) : k \in 1..Len(pickItems) }

GetSession(scopes, mode) == [kind |-> "getSession", scopes |-> scopes, mode |-> mode]
Pick(title) == [kind |-> "pick", title |-> title]
ErrorMessage(text) == [kind |-> "error", text |-> text]
AzureGet(op, uri, token) ==
    Request(op, "azureRequest", "GET", uri, token, <<>>, NoBody)

RECURSIVE FindSub(_, _, _)
\* 1-based position of the first occurrence of pattern in text at or after i,
\* 0 when there is none
FindSub(text, pattern, i) ==
    IF i + Len(pattern) - 1 > Len(text) THEN 0
    ELSE IF SubSeq(text, i, i + Len(pattern) - 1) = pattern THEN i
    ELSE FindSub(text, pattern, i + 1)

\* String.prototype.replace(pattern, replacement) for a string pattern: the
\* first occurrence only
Replace(text, pattern, replacement) ==
    LET at == FindSub(text, pattern, 1)
    IN  IF at = 0 THEN text
        ELSE SubSeq(text, 1, at - 1) \o replacement
             \o SubSeq(text, at + Len(pattern), Len(text))

\* the endpoint of the response taken as it is
FixedEndpointAsReceived(workspace) ==
    IF workspace.properties.endpointUri.def
    THEN workspace.properties.endpointUri.val
    ELSE <<>>

\* workspace.properties.endpointUri?.replace(`https://${workspace.name}.`,
\* "https://") || ""
FixedEndpoint(workspace) ==
    IF workspace.properties.endpointUri.def
    THEN Replace(workspace.properties.endpointUri.val,
                 <<"https://">> \o workspace.name \o <<".">>, <<"https://">>)
    ELSE <<>>

\* the WorkspaceConnection built with every provider marked Available
ConnectionAllAvailable(workspace, tenantId) ==
    [id |-> workspace.id,
     name |-> workspace.name,
     endpointUri |-> FixedEndpoint(workspace),
     tenantId |-> tenantId,
     providers |->
        [k \in 1..Len(workspace.properties.providers) |->
            [providerId |-> workspace.properties.providers[k].providerId,
             currentAvailability |-> "Available",
             targets |-> <<>>]],
     jobs |-> <<>>]

\* the WorkspaceConnection built with a target per provider
ConnectionWithTargets(workspace, tenantId) ==
    [id |-> workspace.id,
     name |-> workspace.name,
     endpointUri |-> FixedEndpoint(workspace),
     tenantId |-> tenantId,
     providers |->
        [k \in 1..Len(workspace.properties.providers) |->
            [providerId |-> workspace.properties.providers[k].providerId,
             currentAvailability |->
                IF workspace.properties.providers[k].provisioningState = "Succeeded"
                THEN "Available" ELSE "Unavailable",
             targets |-> <<[id |-> workspace.properties.providers[k].providerId]>>]],
     jobs |-> <<>>]

\* the WorkspaceConnection built from the chosen workspace
Connection(workspace, tenantId) ==
    [id |-> workspace.id,
     name |-> workspace.name,
     endpointUri |-> FixedEndpoint(workspace),
     tenantId |-> tenantId,
     providers |->
        [k \in 1..Len(workspace.properties.providers) |->
            [providerId |-> workspace.properties.providers[k].providerId,
             currentAvailability |->
                IF workspace.properties.providers[k].provisioningState = "Succeeded"
                THEN "Available" ELSE "Unavailable",
             targets |-> <<>>]],
     jobs |-> <<>>]

InitDiscovery ==
    /\ pc = "Start"
    /\ trace = <<>>
    /\ outcome = "running"
    /\ returned = Undefined
    /\ bytes = NoBytes
    /\ guid = <<>>
    /\ IdleSubmit
    /\ qw = NoLocals
    /\ IdleRefresh
    /\ called = "queryWorkspaces"
    /\ IdleOthers

\* the three ways a step of queryWorkspaces ends: it awaits again, returns,
\* or an exception leaves it; l is the locals, evs what the step did
QwAwait(l, evs, at) ==
    /\ qw' = l
    /\ trace' = trace \o evs
    /\ pc' = at
    /\ UNCHANGED <<outcome, returned, guidVars, otherVars, submitVars, refreshVars>>

QwReturn(l, evs, v) ==
    /\ qw' = l
    /\ trace' = trace \o evs \o <<Returned(v)>>
    /\ Return(v)
    /\ UNCHANGED <<guidVars, otherVars, submitVars, refreshVars>>

QwThrow(l, evs) ==
    /\ qw' = l
    /\ trace' = trace \o evs \o <<Thrown>>
    /\ Throw
    /\ UNCHANGED <<guidVars, otherVars, submitVars, refreshVars>>

\* lines 249-275: the workspace is fixed; build and return the connection
AfterWorkspaceFixed(l, evs, workspace) ==
    QwReturn([l EXCEPT !.workspace = Some(workspace)], evs,
             Some(Connection(workspace, l.tenantId.val)))

\* lines 216-247, from the workspace list on
AfterWorkspaces(l0, evs, env) ==
    LET l == [l0 EXCEPT !.workspaces = env]
    IN  IF ~env.def \/ ~env.val.value.def
        THEN QwThrow(l, evs)
        ELSE LET list == env.val.value.val
             IN  IF Len(list) = 0
                 THEN QwReturn(l, evs \o <<ErrorMessage(
                         "No Quantum Workspaces found in the Azure subscription")>>,
                         Undefined)
                 ELSE IF Len(list) > 1
                 THEN QwAwait([l EXCEPT !.workspace = Some(list[1])],
                              evs \o <<Pick("Select a workspace")>>,
                              "AwaitWorkspacePick")
                 ELSE AfterWorkspaceFixed(l, evs, list[1])

AfterSubscriptionFixedFirstToken(l0, evs, subId) ==
    QwAwait([l0 EXCEPT !.subId = Some(subId)],
            evs \o <<AzureGet("Workspaces", AzureUrisWorkspaces(subId),
                              l0.firstAuth.val.accessToken)>>,
            "AwaitWorkspaces")

\* lines 215-219: the subscription is fixed; request its workspaces
AfterSubscriptionFixed(l0, evs, subId) ==
    QwAwait([l0 EXCEPT !.subId = Some(subId)],
            evs \o <<AzureGet("Workspaces", AzureUrisWorkspaces(subId),
                              l0.tenantAuth.val.accessToken)>>,
            "AwaitWorkspaces")

\* from the subscription list on, with a quick-pick for any non-empty list
AfterSubscriptionsAlwaysPicks(l0, evs, env) ==
    LET l == [l0 EXCEPT !.subs = env]
    IN  IF ListLength(env) = 0
        THEN QwReturn(l, evs \o <<ErrorMessage(
                 "No Azure subscriptions found for the account and tenant")>>,
                 Undefined)
        ELSE LET list == env.val.value.val
             IN  QwAwait([l EXCEPT !.subId = Some(list[1].subscriptionId)],
                         evs \o <<Pick("Select a subscription")>>,
                         "AwaitSubscriptionPick")

\* lines 192-213, from the subscription list on
AfterSubscriptions(l0, evs, env) ==
    LET l == [l0 EXCEPT !.subs = env]
    IN  IF ListLength(env) = 0
        THEN QwReturn(l, evs \o <<ErrorMessage(
                 "No Azure subscriptions found for the account and tenant")>>,
                 Undefined)
        ELSE LET list == env.val.value.val
             IN  IF Len(list) > 1
                 THEN QwAwait([l EXCEPT !.subId = Some(list[1].subscriptionId)],
                              evs \o <<Pick("Select a subscription")>>,
                              "AwaitSubscriptionPick")
                 ELSE AfterSubscriptionFixed(l, evs, list[1].subscriptionId)

\* lines 186-191: the tenant session is fixed; request the subscriptions
AfterTenantAuth(l0, evs, tenantAuth) ==
    QwAwait([l0 EXCEPT !.tenantAuth = Some(tenantAuth)],
            evs \o <<AzureGet("Subscriptions", AzureUrisSubscriptions,
                              tenantAuth.accessToken)>>,
            "AwaitSubscriptions")

\* the tenant is fixed; sign in to it only when the first session is neither
\* an "aad" account nor of that tenant
AfterTenantFixedEitherSuffices(l0, evs, tenantId) ==
    LET l == [l0 EXCEPT !.tenantId = Some(tenantId)]
        tenantAuth == l.firstAuth.val
        matchesTenant == StartsWith(tenantAuth.account.id, tenantId)
        accountType == tenantAuth.account.type
    IN  IF accountType # "aad" /\ ~matchesTenant
        THEN QwAwait([l EXCEPT !.tenantAuth = Some(tenantAuth)],
                     evs \o <<GetSession(<<ArmMgmt, TenantScope(tenantId)>>,
                                         "silent")>>,
                     "TenantAuthSilent")
        ELSE AfterTenantAuth(l, evs, tenantAuth)

\* lines 172-179: the tenant is fixed; sign in to it unless the first session
\* is an "aad" account of that tenant
AfterTenantFixed(l0, evs, tenantId) ==
    LET l == [l0 EXCEPT !.tenantId = Some(tenantId)]
        tenantAuth == l.firstAuth.val
        matchesTenant == StartsWith(tenantAuth.account.id, tenantId)
        accountType == tenantAuth.account.type
    IN  IF accountType # "aad" \/ ~matchesTenant
        THEN QwAwait([l EXCEPT !.tenantAuth = Some(tenantAuth)],
                     evs \o <<GetSession(<<ArmMgmt, TenantScope(tenantId)>>,
                                         "silent")>>,
                     "TenantAuthSilent")
        ELSE AfterTenantAuth(l, evs, tenantAuth)

\* from the tenant list on, going on to the sign-in when the list is empty
AfterTenantsNoEmptyTest(l0, evs, env) ==
    LET l == [l0 EXCEPT !.tenants = env]
    IN  IF ListLength(env) = 0
        THEN AfterTenantFixed(l, evs, <<>>)
        ELSE LET list == env.val.value.val
             IN  IF Len(list) > 1
                 THEN QwAwait([l EXCEPT !.tenantId = Some(list[1].tenantId)],
                              evs \o <<Pick("Select a tenant")>>,
                              "AwaitTenantPick")
                 ELSE AfterTenantFixed(l, evs, list[1].tenantId)

\* lines 146-167, from the tenant list on
AfterTenants(l0, evs, env) ==
    LET l == [l0 EXCEPT !.tenants = env]
    IN  IF ListLength(env) = 0
        THEN QwReturn(l, evs \o <<ErrorMessage(
                 "There a no tenants listed for the account. Ensure the account has an Azure subscription.")>>,
                 Undefined)
        ELSE LET list == env.val.value.val
             IN  IF Len(list) > 1
                 THEN QwAwait([l EXCEPT !.tenantId = Some(list[1].tenantId)],
                              evs \o <<Pick("Select a tenant")>>,
                              "AwaitTenantPick")
                 ELSE AfterTenantFixed(l, evs, list[1].tenantId)

\* the tenants are requested whether the first session is there or not
AfterFirstAuthNoTest(l0, evs, firstAuth) ==
    LET l == [l0 EXCEPT !.firstAuth = firstAuth]
    IN  QwAwait(l, evs \o <<AzureGet("Tenants", AzureUrisTenants,
                                     IF firstAuth.def THEN firstAuth.val.accessToken
                                     ELSE <<"undefined">>)>>,
                "AwaitTenants")

\* lines 134-145: the first session is there (or not); request the tenants
AfterFirstAuth(l0, evs, firstAuth) ==
    LET l == [l0 EXCEPT !.firstAuth = firstAuth]
    IN  IF ~firstAuth.def
        THEN QwReturn(l, evs, Undefined)
        ELSE QwAwait(l, evs \o <<AzureGet("Tenants", AzureUrisTenants,
                                          firstAuth.val.accessToken)>>,
                     "AwaitTenants")

\* queryWorkspaces calls getAuthSession([scopes.armMgmt]), which asks for a
\* session silently
QwStart ==
    /\ pc = "Start"
    /\ QwAwait(qw, <<GetSession(<<ArmMgmt>>, "silent")>>, "FirstAuthSilent")

\* the silent getSession of the first sign-in ends and, whatever it yielded,
\* the createIfNone getSession is called
FirstAuthSilentResolvedAsksAgain ==
    /\ pc = "FirstAuthSilent"
    /\ \E r \in GetSessionOutcomes(FirstSessions) :
          LET l == [qw EXCEPT !.getSessionResults = Append(@, r)]
          IN  IF r.threw THEN QwThrow(l, <<>>)
              ELSE QwAwait(l, <<GetSession(<<ArmMgmt>>, "createIfNone")>>,
                           "FirstAuthInteractive")

\* getAuthSession lines 29-39 for the first sign-in: the silent getSession ends
FirstAuthSilentResolved ==
    /\ pc = "FirstAuthSilent"
    /\ \E r \in GetSessionOutcomes(FirstSessions) :
          LET l == [qw EXCEPT !.getSessionResults = Append(@, r)]
          IN  IF r.threw THEN QwThrow(l, <<>>)
              ELSE IF ~r.session.def
              THEN QwAwait(l, <<GetSession(<<ArmMgmt>>, "createIfNone")>>,
                           "FirstAuthInteractive")
              ELSE AfterFirstAuth(l, <<>>, r.session)

\* getAuthSession lines 34-39 for the first sign-in: the createIfNone
\* getSession ends
FirstAuthInteractiveResolved ==
    /\ pc = "FirstAuthInteractive"
    /\ \E r \in GetSessionOutcomes(FirstSessions) :
          LET l == [qw EXCEPT !.getSessionResults = Append(@, r)]
          IN  IF r.threw THEN QwThrow(l, <<>>)
              ELSE AfterFirstAuth(l, <<>>, r.session)

\* the tenants request ends
TenantsResponded ==
    /\ pc = "AwaitTenants"
    /\ \E result \in azureRequestOutcomes :
          IF result = "throws"
          THEN QwThrow(qw, <<Response("Tenants", result)>>)
          ELSE \E env \in Envelopes([i \in 1..MaxListLen |-> TenantItem(i)]) :
                  AfterTenants(qw, <<Response("Tenants", result)>>, env)

\* the tenant quick-pick ends with one of the items or with undefined
TenantPicked ==
    /\ pc = "AwaitTenantPick"
    /\ LET list == qw.tenants.val.value.val
           pickItems == [k \in 1..Len(list) |-> TenantPickItem(list[k])]
       IN  \E choice \in PickOutcomes(pickItems) :
              LET l == [qw EXCEPT !.choice = Some(choice)]
              IN  IF ~choice.def THEN QwReturn(l, <<>>, Undefined)
                  ELSE AfterTenantFixed(l, <<>>, choice.val.detail)

\* the silent getSession of the tenant sign-in ends and an exception of it is
\* answered with the createIfNone getSession
TenantAuthSilentResolvedRetries ==
    /\ pc = "TenantAuthSilent"
    /\ \E r \in GetSessionOutcomes(TenantSessions(qw.tenantId.val)) :
          LET l == [qw EXCEPT !.getSessionResults = Append(@, r)]
          IN  IF r.threw \/ ~r.session.def
              THEN QwAwait(l, <<GetSession(<<ArmMgmt, TenantScope(qw.tenantId.val)>>,
                                           "createIfNone")>>,
                           "TenantAuthInteractive")
              ELSE AfterTenantAuth(l, <<>>, r.session.val)

\* getAuthSession lines 29-39 for the tenant sign-in: the silent getSession ends
TenantAuthSilentResolved ==
    /\ pc = "TenantAuthSilent"
    /\ \E r \in GetSessionOutcomes(TenantSessions(qw.tenantId.val)) :
          LET l == [qw EXCEPT !.getSessionResults = Append(@, r)]
          IN  IF r.threw THEN QwThrow(l, <<>>)
              ELSE IF ~r.session.def
              THEN QwAwait(l, <<GetSession(<<ArmMgmt, TenantScope(qw.tenantId.val)>>,
                                           "createIfNone")>>,
                           "TenantAuthInteractive")
              ELSE AfterTenantAuth(l, <<>>, r.session.val)

\* getAuthSession lines 34-39 for the tenant sign-in: the createIfNone
\* getSession ends; lines 180-184 return when it yielded nothing
TenantAuthInteractiveResolved ==
    /\ pc = "TenantAuthInteractive"
    /\ \E r \in GetSessionOutcomes(TenantSessions(qw.tenantId.val)) :
          LET l == [qw EXCEPT !.getSessionResults = Append(@, r)]
          IN  IF r.threw THEN QwThrow(l, <<>>)
              ELSE IF ~r.session.def
              THEN QwReturn([l EXCEPT !.tenantAuth = Undefined], <<>>, Undefined)
              ELSE AfterTenantAuth(l, <<>>, r.session.val)

\* the subscriptions request ends
SubscriptionsResponded ==
    /\ pc = "AwaitSubscriptions"
    /\ \E result \in azureRequestOutcomes :
          IF result = "throws"
          THEN QwThrow(qw, <<Response("Subscriptions", result)>>)
          ELSE \E env \in Envelopes([i \in 1..MaxListLen |-> SubscriptionItem(i)]) :
                  AfterSubscriptions(qw, <<Response("Subscriptions", result)>>, env)

\* the subscription quick-pick ends
SubscriptionPicked ==
    /\ pc = "AwaitSubscriptionPick"
    /\ LET list == qw.subs.val.value.val
           pickItems == [k \in 1..Len(list) |-> SubscriptionPickItem(list[k])]
       IN  \E choice \in PickOutcomes(pickItems) :
              LET l == [qw EXCEPT !.choice = Some(choice)]
              IN  IF ~choice.def THEN QwReturn(l, <<>>, Undefined)
                  ELSE AfterSubscriptionFixed(l, <<>>, choice.val.detail)

\* the workspaces request ends
WorkspacesResponded ==
    /\ pc = "AwaitWorkspaces"
    /\ \E result \in azureRequestOutcomes :
          IF result = "throws"
          THEN QwThrow(qw, <<Response("Workspaces", result)>>)
          ELSE \E env \in Envelopes([i \in 1..MaxListLen |->
                                          WorkspaceItem(qw.subId.val, i)]) :
                  AfterWorkspaces(qw, <<Response("Workspaces", result)>>, env)

\* the workspace quick-pick ends with undefined and the default workspace is
\* kept
WorkspacePickedKeepsDefault ==
    /\ pc = "AwaitWorkspacePick"
    /\ LET list == qw.workspaces.val.value.val
           pickItems == [k \in 1..Len(list) |-> WorkspacePickItem(list[k])]
       IN  \E choice \in PickOutcomes(pickItems) :
              LET l == [qw EXCEPT !.choice = Some(choice)]
              IN  IF ~choice.def THEN AfterWorkspaceFixed(l, <<>>, list[1])
                  ELSE AfterWorkspaceFixed(l, <<>>, choice.val.selection)

\* the workspace quick-pick ends
WorkspacePicked ==
    /\ pc = "AwaitWorkspacePick"
    /\ LET list == qw.workspaces.val.value.val
           pickItems == [k \in 1..Len(list) |-> WorkspacePickItem(list[k])]
       IN  \E choice \in PickOutcomes(pickItems) :
              LET l == [qw EXCEPT !.choice = Some(choice)]
              IN  IF ~choice.def THEN QwReturn(l, <<>>, Undefined)
                  ELSE AfterWorkspaceFixed(l, <<>>, choice.val.selection)

NextDiscovery ==
    \/ QwStart
    \/ FirstAuthSilentResolved
    \/ FirstAuthInteractiveResolved
    \/ TenantsResponded
    \/ TenantPicked
    \/ TenantAuthSilentResolved
    \/ TenantAuthInteractiveResolved
    \/ SubscriptionsResponded
    \/ SubscriptionPicked
    \/ WorkspacesResponded
    \/ WorkspacePicked

SpecDiscovery == InitDiscovery /\ [][NextDiscovery]_vars

----------------------------------------------------------------------------
(* queryWorkspace *)

MaxProviders == 2
MaxJobs == 2
MaxRefreshes == 2

\* scopes.quantum
QuantumScope == <<"https://quantum.microsoft.com/user_impersonation">>

\* QuantumUris.providerStatus() and QuantumUris.jobs() of
\* new QuantumUris(workspace.endpointUri, workspace.id)
QuantumUrisProviderStatus(endpointUri, id) == endpointUri \o id \o <<"/providerStatus">>
QuantumUrisJobList(endpointUri, id) == endpointUri \o id \o <<"/jobs">>

\* the exclusion policy of provider ids and of target ids
ExcludedProviders == {"microsoft-qc"}
ExcludedTargets == {"ionq.qpu.test", "microsoft.hidden"}
shouldExcludeProvider(providerId) == providerId \in ExcludedProviders
shouldExcludeTarget(targetId) == targetId \in ExcludedTargets

TargetItem(id, availability) == [id |-> id, currentAvailability |-> availability]

\* the entries a provider-status response is made of: a provider with an
\* excluded target, an excluded provider, a provider with no target
ProviderStatusItems ==
    { [id |-> "ionq", currentAvailability |-> "Available",
       targets |-> << TargetItem("ionq.simulator", "Available"),
                      TargetItem("ionq.qpu.test", "Unavailable"),
                      TargetItem("ionq.qpu", "Degraded") >>],
      [id |-> "microsoft-qc", currentAvailability |-> "Available",
       targets |-> << TargetItem("microsoft.estimator", "Available") >>],
      [id |-> "rigetti", currentAvailability |-> "Unavailable",
       targets |-> <<>>] }

SeqsUpTo(S, n) == UNION { [1..k -> S] : k \in 0..n }

\* what the provider-status request can resolve to: no body, a body without
\* value, or a list of 0 .. MaxProviders entries
ProviderStatusBodies ==
    {Undefined, Some([value |-> Undefined])}
    \cup { Some([value |-> Some(list)]) : list \in SeqsUpTo(ProviderStatusItems, MaxProviders) }

\* creationTime values (ISO timestamps, ordered as their texts are)
CreationTimes == {1, 2}

JobItem(k, creationTime) ==
    [id |-> <<"job", Digits[k + 1]>>, creationTime |-> creationTime]

JobLists ==
    UNION { { [k \in 1..n |-> JobItem(k, times[k])] : times \in [1..n -> CreationTimes] } :
            n \in 0..MaxJobs }

\* what the jobs request can resolve to: no body, a body without value, or a
\* page of 0 .. MaxJobs job records with or without a nextLink
JobsBodies ==
    {Undefined, Some([value |-> Undefined, nextLink |-> Undefined])}
    \cup { Some([value |-> Some(list), nextLink |-> nextLink]) :
             list \in JobLists, nextLink \in {Undefined, Some(<<"{nextLink}">>)} }

\* the sessions a request for the quantum scope of a tenant can yield
WorkspaceSessions(tenantId) ==
    { Session(<<"quantum-token-for-">> \o tenantId, tenantId \o <<".", "user">>, "aad") }

LogError(text) == [kind |-> "log", level |-> "error", text |-> text]

\* the connections queryWorkspace is called with: one as queryWorkspaces built
\* it, and one that an earlier refresh has filled
FreshConnection == Connection(WorkspaceItem(<<"s", "1">>, 1), <<"t", "1">>)
FilledConnection ==
    [FreshConnection EXCEPT
        !.providers = << [providerId |-> "quantinuum",
                          currentAvailability |-> "Available",
                          targets |-> << TargetItem("quantinuum.sim", "Available") >>] >>,
        !.jobs = << JobItem(8, 2), JobItem(9, 1) >>]
StartConnections == {FreshConnection, FilledConnection}

\* the provider entry mapped with every target of the response
ProviderOfAllTargets(provider) ==
    [providerId |-> provider.id,
     currentAvailability |-> provider.currentAvailability,
     targets |-> provider.targets]

\* provider => ({ providerId, currentAvailability, targets: targets.filter(...) })
ProviderOf(provider) ==
    [providerId |-> provider.id,
     currentAvailability |-> provider.currentAvailability,
     targets |-> SelectSeq(provider.targets, LAMBDA target : ~shouldExcludeTarget(target.id))]

\* providers kept by a filter that reads the provider id as a target id
FilteredProvidersByTargetPolicy(providers) ==
    SelectSeq(providers, LAMBDA provider : ~shouldExcludeTarget(provider.providerId))

\* the providers, none of them dropped
FilteredProvidersKeepsAll(providers) == providers

\* workspace.providers.filter((provider) => !shouldExcludeProvider(provider.providerId))
FilteredProviders(providers) ==
    SelectSeq(providers, LAMBDA provider : ~shouldExcludeProvider(provider.providerId))

\* the connection rebuilt around the new providers, without its endpoint
WithProvidersRebuilt(c, value) ==
    [id |-> c.id, name |-> c.name, endpointUri |-> <<>>, tenantId |-> c.tenantId,
     providers |-> FilteredProviders([k \in 1..Len(value) |-> ProviderOf(value[k])]),
     jobs |-> c.jobs]

\* lines 305-317: workspace.providers after the two assignments
WithProviders(c, value) ==
    [c EXCEPT !.providers =
        FilteredProviders([k \in 1..Len(value) |-> ProviderOf(value[k])])]

\* where job goes into a list sorted by the comparator
\* (a, b) => (a.creationTime < b.creationTime ? 1 : -1): behind every record
\* that is newer; the comparator never answers 0, so whether it goes behind or
\* before the records of equal creationTime is up to the engine's sort
SortedInsert(sorted, job, ties) ==
    LET n == Cardinality({ i \in 1..Len(sorted) :
                             \/ sorted[i].creationTime > job.creationTime
                             \/ /\ sorted[i].creationTime = job.creationTime
                                /\ ties = "keep" })
    IN  SubSeq(sorted, 1, n) \o <<job>> \o SubSeq(sorted, n + 1, Len(sorted))

RECURSIVE SortFrom(_, _, _, _)
SortFrom(list, k, sorted, ties) ==
    IF k > Len(list) THEN sorted
    ELSE SortFrom(list, k + 1, SortedInsert(sorted, list[k], ties), ties)

\* the page in the order it was received
SortJobsAsReceived(list, ties) == list

\* jobs.value.sort(...).map((job) => ({ ...job }))
SortJobs(list, ties) == SortFrom(list, 1, <<>>, ties)

\* the sorted page added behind the jobs the connection holds
WithJobsAppended(c, list, ties) == [c EXCEPT !.jobs = c.jobs \o SortJobs(list, ties)]

\* lines 337-339: workspace.jobs after the assignment
WithJobs(c, list, ties) == [c EXCEPT !.jobs = SortJobs(list, ties)]

InitRefresh ==
    /\ pc = "Start"
    /\ trace = <<>>
    /\ outcome = "running"
    /\ returned = Undefined
    /\ bytes = NoBytes
    /\ guid = <<>>
    /\ IdleSubmit
    /\ qw = NoLocals
    /\ connection \in StartConnections
    /\ rf = NoRefreshLocals
    /\ server \in [providerStatus : ProviderStatusBodies, jobs : JobsBodies]
    /\ sortTies \in {"keep", "reverse"}
    /\ snapshots = <<connection>>
    /\ called = "queryWorkspace"
    /\ IdleOthers

\* the three ways a step of queryWorkspace ends: it awaits again, returns, or
\* an exception leaves it; l is the locals, c the connection, evs what the
\* step did
RfAwait(l, c, evs, at) ==
    /\ rf' = l
    /\ connection' = c
    /\ trace' = trace \o evs
    /\ pc' = at
    /\ UNCHANGED <<outcome, returned, snapshots>>

RfReturn(l, c, evs) ==
    /\ rf' = l
    /\ connection' = c
    /\ trace' = trace \o evs \o <<Returned(Undefined)>>
    /\ snapshots' = Append(snapshots, c)
    /\ Return(Undefined)

RfThrow(l, c, evs) ==
    /\ rf' = l
    /\ connection' = c
    /\ trace' = trace \o evs \o <<Thrown>>
    /\ UNCHANGED snapshots
    /\ Throw

\* from the jobs response on, storing the page also when it is empty
AfterJobsStoresEmptyPage(l0, evs, jobs) ==
    LET l == [l0 EXCEPT !.jobs = jobs]
    IN  IF ~jobs.def \/ ~jobs.val.value.def
        THEN RfThrow(l, connection, evs)
        ELSE LET value == jobs.val.value.val
                 logged == IF jobs.val.nextLink.def
                           THEN <<LogError("Jobs returned a nextLink. This is not supported yet.")>>
                           ELSE <<>>
             IN  RfReturn(l, WithJobs(connection, value, sortTies), evs \o logged)

\* from the jobs response on, giving up on a page that has a nextLink
AfterJobsThrowsOnNextLink(l0, evs, jobs) ==
    LET l == [l0 EXCEPT !.jobs = jobs]
    IN  IF ~jobs.def \/ ~jobs.val.value.def
        THEN RfThrow(l, connection, evs)
        ELSE LET value == jobs.val.value.val
             IN  IF jobs.val.nextLink.def
                 THEN RfThrow(l, connection, evs \o
                        <<LogError("Jobs returned a nextLink. This is not supported yet.")>>)
                 ELSE IF Len(value) = 0
                 THEN RfReturn(l, connection, evs)
                 ELSE RfReturn(l, WithJobs(connection, value, sortTies), evs)

\* lines 319-341, from the jobs response on
AfterJobs(l0, evs, jobs) ==
    LET l == [l0 EXCEPT !.jobs = jobs]
    IN  IF ~jobs.def \/ ~jobs.val.value.def
        THEN RfThrow(l, connection, evs)
        ELSE LET value == jobs.val.value.val
                 logged == IF jobs.val.nextLink.def
                           THEN <<LogError("Jobs returned a nextLink. This is not supported yet.")>>
                           ELSE <<>>
             IN  IF Len(value) = 0
                 THEN RfReturn(l, connection, evs \o logged)
                 ELSE RfReturn(l, WithJobs(connection, value, sortTies), evs \o logged)

\* from the provider-status response on, with the providers not assigned
\* before the jobs were received
AfterProviderStatusDefersWrite(l0, evs, providerStatus) ==
    LET l == [l0 EXCEPT !.providerStatus = providerStatus]
    IN  IF ~providerStatus.def \/ ~providerStatus.val.value.def
        THEN RfThrow(l, connection, evs)
        ELSE RfAwait(l, connection,
                     evs \o <<AzureGet("Jobs",
                                       QuantumUrisJobList(connection.endpointUri,
                                                          connection.id),
                                       l.token.val)>>,
                     "AwaitJobs")

\* lines 298-323, from the provider-status response on
AfterProviderStatus(l0, evs, providerStatus) ==
    LET l == [l0 EXCEPT !.providerStatus = providerStatus]
    IN  IF ~providerStatus.def \/ ~providerStatus.val.value.def
        THEN RfThrow(l, connection, evs)
        ELSE RfAwait(l, WithProviders(connection, providerStatus.val.value.val),
                     evs \o <<AzureGet("Jobs",
                                       QuantumUrisJobList(connection.endpointUri,
                                                          connection.id),
                                       l.token.val)>>,
                     "AwaitJobs")

\* lines 283-297: getTokenForWorkspace reads accessToken of the session; then
\* the provider status is requested
AfterWorkspaceAuth(l0, evs, workspaceAuth) ==
    IF ~workspaceAuth.def
    THEN RfThrow(l0, connection, evs)
    ELSE LET l == [l0 EXCEPT !.token = Some(workspaceAuth.val.accessToken)]
         IN  RfAwait(l, connection,
                     evs \o <<AzureGet("ProviderStatus",
                                       QuantumUrisProviderStatus(connection.endpointUri,
                                                                 connection.id),
                                       l.token.val)>>,
                     "AwaitProviderStatus")

\* queryWorkspace calls getTokenForWorkspace, which calls getAuthSession with
\* the quantum scope and the tenant of the connection
RefreshStart ==
    /\ pc = "Start"
    /\ RfAwait([rf EXCEPT !.atEntry = Some(connection)], connection,
               <<GetSession(<<QuantumScope, TenantScope(connection.tenantId)>>, "silent")>>,
               "TokenSilent")
    /\ UNCHANGED <<guidVars, otherVars, submitVars, discoveryVars, server, sortTies>>

\* getAuthSession lines 29-39: the silent getSession ends
TokenSilentResolved ==
    /\ pc = "TokenSilent"
    /\ \E r \in GetSessionOutcomes(WorkspaceSessions(connection.tenantId)) :
          LET l == [rf EXCEPT !.getSessionResults = Append(@, r)]
          IN  IF r.threw THEN RfThrow(l, connection, <<>>)
              ELSE IF ~r.session.def
              THEN RfAwait(l, connection,
                           <<GetSession(<<QuantumScope, TenantScope(connection.tenantId)>>,
                                        "createIfNone")>>,
                           "TokenInteractive")
              ELSE AfterWorkspaceAuth(l, <<>>, r.session)
    /\ UNCHANGED <<guidVars, otherVars, submitVars, discoveryVars, server, sortTies>>

\* getAuthSession lines 34-39: the createIfNone getSession ends
TokenInteractiveResolved ==
    /\ pc = "TokenInteractive"
    /\ \E r \in GetSessionOutcomes(WorkspaceSessions(connection.tenantId)) :
          LET l == [rf EXCEPT !.getSessionResults = Append(@, r)]
          IN  IF r.threw THEN RfThrow(l, connection, <<>>)
              ELSE AfterWorkspaceAuth(l, <<>>, r.session)
    /\ UNCHANGED <<guidVars, otherVars, submitVars, discoveryVars, server, sortTies>>

\* the provider-status request ends
ProviderStatusResponded ==
    /\ pc = "AwaitProviderStatus"
    /\ \E result \in azureRequestOutcomes :
          IF result = "throws"
          THEN RfThrow(rf, connection, <<Response("ProviderStatus", result)>>)
          ELSE AfterProviderStatus(rf, <<Response("ProviderStatus", result)>>,
                                   server.providerStatus)
    /\ UNCHANGED <<guidVars, otherVars, submitVars, discoveryVars, server, sortTies>>

\* the jobs request ends
JobsResponded ==
    /\ pc = "AwaitJobs"
    /\ \E result \in azureRequestOutcomes :
          IF result = "throws"
          THEN RfThrow(rf, connection, <<Response("Jobs", result)>>)
          ELSE AfterJobs(rf, <<Response("Jobs", result)>>, server.jobs)
    /\ UNCHANGED <<guidVars, otherVars, submitVars, discoveryVars, server, sortTies>>

\* queryWorkspace is called again on the same connection
RefreshAgain ==
    /\ pc = "Done"
    /\ Len(snapshots) <= MaxRefreshes
    /\ pc' = "Start"
    /\ trace' = <<>>
    /\ outcome' = "running"
    /\ returned' = Undefined
    /\ rf' = NoRefreshLocals
    /\ UNCHANGED <<guidVars, otherVars, submitVars, discoveryVars, connection, server,
                   sortTies, snapshots>>

NextRefresh ==
    \/ RefreshStart
    \/ TokenSilentResolved
    \/ TokenInteractiveResolved
    \/ ProviderStatusResponded
    \/ JobsResponded
    \/ RefreshAgain

SpecRefresh == InitRefresh /\ [][NextRefresh]_vars

----------------------------------------------------------------------------
(* getJobFiles *)

\* the containerName and blobName parameters getJobFiles is called with
JobContainers == {<<"job-", "1">>, <<"job-", "2">>}
BlobNames == {<<"inputData">>, <<"outputData">>, <<"rawOutputData">>}

\* the token parameter of getJobFiles
FilesToken == <<"{token}">>

\* sasUri values the data plane can grant for a blob of a container
BlobSasUris(container, blob) ==
    { <<"https", "://", "acct1.blob.core.windows.net", "/">> \o container
        \o <<"/">> \o blob \o <<"?", "sv=2023", "&", "sig=abc">>,
      <<"https", "://", "acct2.blob.core.windows.net", "/">> \o container
        \o <<"/">> \o blob \o <<"?", "se=2024%2D01", "&", "sig=x%2Fy">> }

\* the text bodies a blob can have
FileTexts == {<<>>, <<"{", "\"Histogram\"", ":", "[", "]", "}">>}

\* what storageRequest(sasUri, "GET") resolves to: nothing, or a response
\* whose text() resolves to the body or rejects
FileResults ==
    {Undefined}
    \cup { Some([text |-> Some(t)]) : t \in FileTexts }
    \cup { Some([text |-> Undefined]) }

\* JSON.stringify({ containerName, blobName })
FilesSasBody(container, blob) == [containerName |-> container, blobName |-> blob]

\* the URI of the GET, were the grant used as it was received
FileGetUriAsGranted(sasResponse_) == sasResponse_.sasUri

\* const sasUri = decodeURI(sasResponse.sasUri)
FileGetUri(sasResponse_) == decodeURI(sasResponse_.sasUri)

InitFiles ==
    /\ pc = "Start"
    /\ trace = <<>>
    /\ outcome = "running"
    /\ returned = Undefined
    /\ bytes = NoBytes
    /\ guid = <<>>
    /\ IdleSubmit
    /\ qw = NoLocals
    /\ IdleRefresh
    /\ called = "getJobFiles"
    /\ \E container \in JobContainers, blob \in BlobNames :
          jf = Some([containerName |-> container, blobName |-> blob,
                     token |-> FilesToken, sasResponse |-> Undefined,
                     sasUri |-> Undefined, file |-> Undefined,
                     blob |-> Undefined])
    /\ conc = <<>>
    /\ py = Undefined

\* the three ways a step of getJobFiles ends: it awaits again, returns, or an
\* exception leaves it; l is the locals, evs what the step did
JfAwait(l, evs, at) ==
    /\ jf' = Some(l)
    /\ trace' = trace \o evs
    /\ pc' = at
    /\ UNCHANGED <<outcome, returned>>

JfReturn(l, evs, v) ==
    /\ jf' = Some(l)
    /\ trace' = trace \o evs \o <<Returned(v)>>
    /\ Return(v)

JfThrow(l, evs) ==
    /\ jf' = Some(l)
    /\ trace' = trace \o evs \o <<Thrown>>
    /\ Throw

filesFrame == UNCHANGED <<guidVars, submitVars, discoveryVars, refreshVars,
                          called, conc, py>>

\* lines 352-358: the body is built and the SAS grant is requested
FilesStart ==
    /\ pc = "Start"
    /\ called = "getJobFiles"
    /\ JfAwait(jf.val,
               <<Request("SasGrant", "azureRequest", "POST", QuantumUrisSasUri,
                         jf.val.token, <<>>,
                         FilesSasBody(jf.val.containerName, jf.val.blobName))>>,
               "AwaitFileSas")
    /\ filesFrame

\* lines 353-362: the SAS request ends; on success the GET is issued
FileSasResponded ==
    /\ pc = "AwaitFileSas"
    /\ \E result \in azureRequestOutcomes :
          IF result = "throws"
          THEN JfThrow(jf.val, <<Response("SasGrant", result)>>)
          ELSE \E uri \in BlobSasUris(jf.val.containerName, jf.val.blobName) :
                 LET sasResponse_ == [sasUri |-> uri]
                     sasUri == FileGetUri(sasResponse_)
                 IN  JfAwait([jf.val EXCEPT !.sasResponse = Some(sasResponse_),
                                            !.sasUri = Some(sasUri)],
                             << Response("SasGrant", result),
                                Request("FileGet", "storageRequest", "GET", sasUri,
                                        NoToken, <<>>, NoBody) >>,
                             "AwaitFileGet")
    /\ filesFrame

\* the GET ends; a GET that failed is issued a second time
FileGetRespondedRetries ==
    /\ pc = "AwaitFileGet"
    /\ \E result \in storageRequestOutcomes :
          IF result = "throws"
          THEN IF Len(SelectSeq(trace, LAMBDA e : e.kind = "request" /\ e.op = "FileGet")) = 1
               THEN JfAwait(jf.val,
                            << Response("FileGet", result),
                               Request("FileGet", "storageRequest", "GET",
                                       jf.val.sasUri.val, NoToken, <<>>, NoBody) >>,
                            "AwaitFileGet")
               ELSE JfThrow(jf.val, <<Response("FileGet", result)>>)
          ELSE \E file \in FileResults :
                 LET l == [jf.val EXCEPT !.file = file]
                 IN  IF ~file.def
                     THEN JfThrow(l, <<Response("FileGet", result)>>)
                     ELSE JfAwait(l, <<Response("FileGet", result)>>,
                                  "AwaitFileText")
    /\ filesFrame

\* lines 362-364: the GET ends; without a file "No file returned" is thrown,
\* with one its text is awaited
FileGetResponded ==
    /\ pc = "AwaitFileGet"
    /\ \E result \in storageRequestOutcomes :
          IF result = "throws"
          THEN JfThrow(jf.val, <<Response("FileGet", result)>>)
          ELSE \E file \in FileResults :
                 LET l == [jf.val EXCEPT !.file = file]
                 IN  IF ~file.def
                     THEN JfThrow(l, <<Response("FileGet", result)>>)
                     ELSE JfAwait(l, <<Response("FileGet", result)>>,
                                  "AwaitFileText")
    /\ filesFrame

\* lines 364-365: file.text() ends; the text is returned
FileTextResolved ==
    /\ pc = "AwaitFileText"
    /\ LET text == jf.val.file.val.text
       IN  IF ~text.def
           THEN JfThrow(jf.val, <<>>)
           ELSE JfReturn([jf.val EXCEPT !.blob = text], <<>>, text)
    /\ filesFrame

NextFiles ==
    \/ FilesStart
    \/ FileSasResponded
    \/ FileGetResponded
    \/ FileTextResolved

SpecFiles == InitFiles /\ [][NextFiles]_vars

----------------------------------------------------------------------------
(* The four operations that use the network, each as the function called *)

InitOperation ==
    \/ InitSubmit
    \/ InitDiscovery
    \/ InitRefresh
    \/ InitFiles

NextOperation ==
    \/ called = "submitJob" /\ Next
    \/ called = "queryWorkspaces" /\ NextDiscovery
    \/ called = "queryWorkspace" /\ NextRefresh
    \/ called = "getJobFiles" /\ NextFiles

SpecOperation == InitOperation /\ [][NextOperation]_vars

----------------------------------------------------------------------------
(* Two queryWorkspace calls on one WorkspaceConnection object *)

\* the two calls; each runs lines 289-342 and is suspended at its awaits, where
\* the other may run
Calls == {1, 2}

\* what the data plane answers a call with: well-formed bodies, one list of
\* providers and one page of jobs per call (no page has two records of one
\* creationTime, so the order of ties plays no part here)
ConcurrentServers ==
    { [providerStatus |->
          Some([value |-> Some(<< [id |-> "ionq", currentAvailability |-> "Available",
                                   targets |-> << TargetItem("ionq.simulator", "Available"),
                                                  TargetItem("ionq.qpu.test", "Unavailable") >>] >>)]),
       jobs |-> Some([value |-> Some(<< JobItem(1, 1) >>), nextLink |-> Undefined])],
      [providerStatus |->
          Some([value |-> Some(<< [id |-> "rigetti", currentAvailability |-> "Unavailable",
                                   targets |-> <<>>] >>)]),
       jobs |-> Some([value |-> Some(<< JobItem(2, 1), JobItem(3, 2) >>),
                      nextLink |-> Undefined])],
      [providerStatus |->
          Some([value |-> Some(<< [id |-> "microsoft-qc", currentAvailability |-> "Available",
                                   targets |-> << TargetItem("microsoft.estimator", "Available") >>] >>)]),
       jobs |-> Some([value |-> Some(<<>>), nextLink |-> Undefined])] }

\* a call before it has run: its position, its locals, how it ended, and what
\* the data plane will answer it with
NewCall(sv) ==
    [pc |-> "Start", token |-> Undefined, providerStatus |-> Undefined,
     jobs |-> Undefined, outcome |-> "running", server |-> sv]

\* an event of the trace, with the call that caused it
ByCall(i, evs) == [k \in 1..Len(evs) |-> [call |-> i, ev |-> evs[k]]]

InitConcurrent ==
    /\ pc = "Start"
    /\ trace = <<>>
    /\ outcome = "running"
    /\ returned = Undefined
    /\ bytes = NoBytes
    /\ guid = <<>>
    /\ IdleSubmit
    /\ qw = NoLocals
    /\ connection \in StartConnections
    /\ rf = NoRefreshLocals
    /\ server = Undefined
    /\ sortTies = "keep"
    /\ snapshots = <<connection>>
    /\ called = "queryWorkspace"
    /\ jf = Undefined
    /\ \E sv1 \in ConcurrentServers, sv2 \in ConcurrentServers :
          conc = <<NewCall(sv1), NewCall(sv2)>>
    /\ py = Undefined

\* workspace.jobs is assigned together with the providers this call received
ConcJobsWriteWithOwnProviders(c, call, value) ==
    WithJobs(WithProviders(c, call.providerStatus.val.value.val), value, sortTies)

\* lines 337-339, run by a call on the object as it is at that moment
ConcJobsWrite(c, call, value) == WithJobs(c, value, sortTies)

\* a step of call i ends: the call is now as in `call`, the object as in c
ConcStep(i, call, c, evs) ==
    /\ conc' = [conc EXCEPT ![i] = call]
    /\ connection' = c
    /\ trace' = trace \o ByCall(i, evs)
    /\ pc' = IF \A j \in Calls : (IF j = i THEN call ELSE conc[j]).pc = "Done"
             THEN "Done" ELSE "Running"
    /\ UNCHANGED <<outcome, returned, guidVars, submitVars, discoveryVars, rf,
                   server, sortTies, snapshots, called, jf, py>>

ConcThrow(i, call, evs) ==
    ConcStep(i, [call EXCEPT !.pc = "Done", !.outcome = "threw"], connection,
             evs \o <<Thrown>>)

\* lines 283-297 for call i, from the session on
ConcAfterWorkspaceAuth(i, evs, workspaceAuth) ==
    IF ~workspaceAuth.def
    THEN ConcThrow(i, conc[i], evs)
    ELSE LET token == workspaceAuth.val.accessToken
         IN  ConcStep(i, [conc[i] EXCEPT !.token = Some(token),
                                         !.pc = "AwaitProviderStatus"],
                      connection,
                      evs \o <<AzureGet("ProviderStatus",
                                        QuantumUrisProviderStatus(connection.endpointUri,
                                                                  connection.id),
                                        token)>>)

\* call i enters queryWorkspace: getTokenForWorkspace, getAuthSession
ConcStart(i) ==
    /\ conc[i].pc = "Start"
    /\ ConcStep(i, [conc[i] EXCEPT !.pc = "TokenSilent"], connection,
                <<GetSession(<<QuantumScope, TenantScope(connection.tenantId)>>,
                             "silent")>>)

\* getAuthSession lines 29-39 for call i: the silent getSession ends
ConcTokenSilentResolved(i) ==
    /\ conc[i].pc = "TokenSilent"
    /\ \E r \in GetSessionOutcomes(WorkspaceSessions(connection.tenantId)) :
          IF r.threw THEN ConcThrow(i, conc[i], <<>>)
          ELSE IF ~r.session.def
          THEN ConcStep(i, [conc[i] EXCEPT !.pc = "TokenInteractive"], connection,
                        <<GetSession(<<QuantumScope, TenantScope(connection.tenantId)>>,
                                     "createIfNone")>>)
          ELSE ConcAfterWorkspaceAuth(i, <<>>, r.session)

\* getAuthSession lines 34-39 for call i: the createIfNone getSession ends
ConcTokenInteractiveResolved(i) ==
    /\ conc[i].pc = "TokenInteractive"
    /\ \E r \in GetSessionOutcomes(WorkspaceSessions(connection.tenantId)) :
          IF r.threw THEN ConcThrow(i, conc[i], <<>>)
          ELSE ConcAfterWorkspaceAuth(i, <<>>, r.session)

\* lines 298-323 for call i: its provider-status request ends; the providers
\* are assigned to the object and the jobs are requested
ConcProviderStatusResponded(i) ==
    /\ conc[i].pc = "AwaitProviderStatus"
    /\ \E result \in azureRequestOutcomes :
          IF result = "throws"
          THEN ConcThrow(i, conc[i], <<Response("ProviderStatus", result)>>)
          ELSE LET providerStatus == conc[i].server.providerStatus
               IN  ConcStep(i, [conc[i] EXCEPT !.providerStatus = providerStatus,
                                               !.pc = "AwaitJobs"],
                            WithProviders(connection, providerStatus.val.value.val),
                            << Response("ProviderStatus", result),
                               AzureGet("Jobs",
                                        QuantumUrisJobList(connection.endpointUri,
                                                           connection.id),
                                        conc[i].token.val) >>)

\* lines 319-341 for call i: its jobs request ends; a page with records is
\* sorted and assigned to the object
ConcJobsResponded(i) ==
    /\ conc[i].pc = "AwaitJobs"
    /\ \E result \in azureRequestOutcomes :
          IF result = "throws"
          THEN ConcThrow(i, conc[i], <<Response("Jobs", result)>>)
          ELSE LET jobs == conc[i].server.jobs
                   value == jobs.val.value.val
                   call == [conc[i] EXCEPT !.jobs = jobs, !.pc = "Done",
                                           !.outcome = "returned"]
               IN  ConcStep(i, call,
                            IF Len(value) = 0 THEN connection
                            ELSE ConcJobsWrite(connection, call, value),
                            <<Response("Jobs", result), Returned(Undefined)>>)

NextConcurrent ==
    \E i \in Calls :
        \/ ConcStart(i)
        \/ ConcTokenSilentResolved(i)
        \/ ConcTokenInteractiveResolved(i)
        \/ ConcProviderStatusResponded(i)
        \/ ConcJobsResponded(i)

SpecConcurrent == InitConcurrent /\ [][NextConcurrent]_vars

----------------------------------------------------------------------------
(* getPythonCodeForWorkspace *)

\* In this section an id is written as its path segments and the "/" between
\* them, an endpoint as "https://", its host labels and the "." between them.

\* the parts the workspaces given to getPythonCodeForWorkspace are made of
PySubscriptions == {"s1", "0000-1111"}
PyResourceGroups == {"rg", "my.group"}
PyNames == {"ws1", "westus"}
PyRegions == {"westus", "eastus2"}
PyHost == <<"quantum", ".", "azure", ".", "com">>

\* ids: the ARM form, the same behind a gateway prefix, one that ends with the
\* resource group, one spelled resourcegroups, one with an empty subscription,
\* one without a resource group
PyIdForms == {"arm", "prefixed", "short", "lowercase", "noSubscription", "noGroup"}
PyId(form, sub, group, name) ==
    LET tail == <<"/", "providers", "/", "Microsoft.Quantum", "/", "Workspaces", "/", name>>
    IN  CASE form = "arm" ->
               <<"/", "subscriptions", "/", sub, "/", "resourceGroups", "/", group>> \o tail
          [] form = "prefixed" ->
               <<"/", "gateway", "/", "subscriptions", "/", sub, "/", "resourceGroups",
                 "/", group>> \o tail
          [] form = "short" ->
               <<"/", "subscriptions", "/", sub, "/", "resourceGroups", "/", group>>
          [] form = "lowercase" ->
               <<"/", "subscriptions", "/", sub, "/", "resourcegroups", "/", group>> \o tail
          [] form = "noSubscription" ->
               <<"/", "subscriptions", "/", "/", "resourceGroups", "/", group>> \o tail
          [] OTHER ->
               <<"/", "subscriptions", "/", sub>> \o tail

\* endpoints as the control plane reports them: the workspace name before the
\* region, another label before the region, the region first, none, a host
\* without a dot, or another scheme
PyEndpointForms == {"name.region", "other.region", "region", "none", "noDot", "http"}
PyEndpoint(form, name, region) ==
    CASE form = "name.region" -> <<"https://", name, ".", region, ".">> \o PyHost
      [] form = "other.region" -> <<"https://", "shared", ".", region, ".">> \o PyHost
      [] form = "region" -> <<"https://", region, ".">> \o PyHost
      [] form = "noDot" -> <<"https://", "localhost">>
      [] form = "http" -> <<"http://", region, ".">> \o PyHost
      [] OTHER -> <<>>

\* the WorkspaceConnection given to the function: built by queryWorkspaces
\* (lines 249-266, which rewrite the endpoint), or holding the endpoint as it
\* was reported
PyOrigins == {"queryWorkspaces", "asReported"}
PyWorkspace(idForm, sub, group, name, endpointForm, region, origin) ==
    LET endpointUri == IF endpointForm = "none" THEN Undefined
                       ELSE Some(PyEndpoint(endpointForm, name, region))
        reported == [id |-> PyId(idForm, sub, group, name),
                     name |-> <<name>>,
                     properties |-> [endpointUri |-> endpointUri, providers |-> <<>>]]
        built == Connection(reported, <<"t", "1">>)
    IN  IF origin = "queryWorkspaces" THEN built
        ELSE [built EXCEPT !.endpointUri = IF endpointUri.def THEN endpointUri.val
                                           ELSE <<>>]

RECURSIVE IdMatchFrom(_, _)
\* workspace.id.match(idRegex): the leftmost place from i on where
\* /subscriptions/<segment>/resourceGroups/<segment> stands, as the two
\* named groups, or undefined
IdMatchFrom(id, i) ==
    IF i + 7 > Len(id) THEN Undefined
    ELSE IF /\ id[i] = "/" /\ id[i + 1] = "subscriptions" /\ id[i + 2] = "/"
            /\ id[i + 3] # "/"
            /\ id[i + 4] = "/" /\ id[i + 5] = "resourceGroups" /\ id[i + 6] = "/"
            /\ id[i + 7] # "/"
    THEN Some([subscriptionId |-> <<id[i + 3]>>, resourceGroup |-> <<id[i + 7]>>])
    ELSE IdMatchFrom(id, i + 1)

idMatch(id) == IdMatchFrom(id, 1)

RECURSIVE UpToDot(_, _)
\* [^.]+ from position i: the position of the next ".", 0 if there is none
UpToDot(text, i) ==
    IF i > Len(text) THEN 0
    ELSE IF text[i] = "." THEN i
    ELSE UpToDot(text, i + 1)

RECURSIVE EndpointMatchFrom(_, _)
\* workspace.endpointUri.match(endpointRegex): the leftmost https:// from i on
\* that is followed by at least one character other than "." and then a ".",
\* as the named group, or undefined
EndpointMatchFrom(text, i) ==
    IF i > Len(text) THEN Undefined
    ELSE IF text[i] = "https://" /\ UpToDot(text, i + 1) > i + 1
    THEN Some([location |-> SubSeq(text, i + 1, UpToDot(text, i + 1) - 1)])
    ELSE EndpointMatchFrom(text, i + 1)

\* the location group read one host label too far
endpointMatchSecondLabel(endpointUri) ==
    LET first == UpToDot(endpointUri, 2)
        second == UpToDot(endpointUri, first + 1)
    IN  IF first = 0 \/ second = 0 \/ second = first + 1 THEN Undefined
        ELSE Some([location |-> SubSeq(endpointUri, first + 1, second - 1)])

endpointMatch(endpointUri) == EndpointMatchFrom(endpointUri, 1)

\* m?.groups?.<group>
Group(m, name) == IF m.def THEN Some(m.val[name]) ELSE Undefined

\* the template literal of lines 104-119, its comment lines left out
pythonCode(subscriptionId, resourceGroup, name, location) ==
    <<"import azure.quantum", "workspace = azure.quantum.Workspace(",
      "subscription_id = \"">> \o subscriptionId
    \o <<"\",", "resource_group = \"">> \o resourceGroup
    \o <<"\",", "name = \"">> \o name
    \o <<"\",", "location = \"">> \o location
    \o <<"\",", ")">>

\* !x for a string-or-undefined x
Falsy(x) == ~x.def \/ x.val = <<>>

\* the locals and the string returned, with a test that leaves out location
getPythonCodeForWorkspaceNoLocationTest(workspace) ==
    LET subscriptionId == Group(idMatch(workspace.id), "subscriptionId")
        resourceGroup == Group(idMatch(workspace.id), "resourceGroup")
        location == Group(endpointMatch(workspace.endpointUri), "location")
    IN  [subscriptionId |-> subscriptionId,
         resourceGroup |-> resourceGroup,
         location |-> location,
         result |-> IF Falsy(subscriptionId) \/ Falsy(resourceGroup)
                    THEN <<>>
                    ELSE pythonCode(subscriptionId.val, resourceGroup.val,
                                    workspace.name, Template(location))]

\* lines 82-122; the locals and the string returned
getPythonCodeForWorkspace(workspace) ==
    LET subscriptionId == Group(idMatch(workspace.id), "subscriptionId")
        resourceGroup == Group(idMatch(workspace.id), "resourceGroup")
        location == Group(endpointMatch(workspace.endpointUri), "location")
    IN  [subscriptionId |-> subscriptionId,
         resourceGroup |-> resourceGroup,
         location |-> location,
         result |-> IF Falsy(subscriptionId) \/ Falsy(resourceGroup) \/ Falsy(location)
                    THEN <<>>
                    ELSE pythonCode(subscriptionId.val, resourceGroup.val,
                                    workspace.name, location.val)]

\* py holds what the workspace was made of, the workspace and, after the
\* call, the locals
InitPython ==
    /\ pc = "Start"
    /\ trace = <<>>
    /\ outcome = "running"
    /\ returned = Undefined
    /\ bytes = NoBytes
    /\ guid = <<>>
    /\ IdleSubmit
    /\ qw = NoLocals
    /\ IdleRefresh
    /\ called = "getPythonCodeForWorkspace"
    /\ jf = Undefined
    /\ conc = <<>>
    /\ \E idForm \in PyIdForms, sub \in PySubscriptions, group \in PyResourceGroups,
          name \in PyNames, endpointForm \in PyEndpointForms, region \in PyRegions,
          origin \in PyOrigins :
          py = Some([idForm |-> idForm, sub |-> sub, group |-> group, name |-> name,
                     endpointForm |-> endpointForm, region |-> region,
                     origin |-> origin,
                     workspace |-> PyWorkspace(idForm, sub, group, name,
                                               endpointForm, region, origin),
                     locals |-> Undefined])

PythonCall ==
    /\ pc = "Start"
    /\ called = "getPythonCodeForWorkspace"
    /\ LET r == getPythonCodeForWorkspace(py.val.workspace)
       IN  /\ py' = Some([py.val EXCEPT !.locals = Some(r)])
           /\ returned' = Some(r.result)
    /\ outcome' = "returned"
    /\ pc' = "Done"
    /\ UNCHANGED <<trace, guidVars, submitVars, discoveryVars, refreshVars,
                   called, jf, conc>>

NextPython == PythonCall

SpecPython == InitPython /\ [][NextPython]_vars

----------------------------------------------------------------------------
(* queryWorkspaces, then queryWorkspace on the connection it returned *)

\* the caller passes the connection queryWorkspaces returned to
\* queryWorkspace; the data plane answers every refresh of it with one of the
\* well-formed bodies of ConcurrentServers
ConnectionHandedOver ==
    /\ called = "queryWorkspaces"
    /\ pc = "Done"
    /\ outcome = "returned"
    /\ returned.def
    /\ called' = "queryWorkspace"
    /\ connection' = returned.val
    /\ snapshots' = <<returned.val>>
    /\ server' \in ConcurrentServers
    /\ rf' = NoRefreshLocals
    /\ qw' = NoLocals
    /\ pc' = "Start"
    /\ trace' = <<>>
    /\ outcome' = "running"
    /\ returned' = Undefined
    /\ UNCHANGED <<guidVars, submitVars, sortTies, jf, conc, py>>

NextLifecycle ==
    \/ called = "queryWorkspaces" /\ NextDiscovery
    \/ ConnectionHandedOver
    \/ called = "queryWorkspace" /\ NextRefresh

SpecLifecycle == InitDiscovery /\ [][NextLifecycle]_vars

----------------------------------------------------------------------------
(* Reading the trace of submitJob *)

IsRequest(e, op) == e.kind = "request" /\ e.op = op
IsFailure(e) == e.kind = "response" /\ ~e.ok

RequestsOf(op) == SelectSeq(trace, LAMBDA e : IsRequest(e, op))
AnyRequest == \E i \in 1..Len(trace) : trace[i].kind = "request"
Requested(op) == \E i \in 1..Len(trace) : IsRequest(trace[i], op)
MessageShown == \E i \in 1..Len(trace) : trace[i].kind = "message"

\* what follows the prompts: requests, responses, message, return or throw
AfterPrompts == SelectSeq(trace, LAMBDA e : e.kind # "prompt")

StepOf(e) == IF e.kind \in {"request", "response"} THEN <<e.kind, e.op>>
             ELSE <<e.kind, "">>

\* the text after the first "?" of a URI, and the text before it
QueryOf(uri) == SubSeq(uri, IndexOf(uri, "?", 0) + 2, Len(uri))
BeforeQuery(uri) == SubSeq(uri, 1, IndexOf(uri, "?", 0))

IsSuffix(t, u) == Len(t) <= Len(u) /\ SubSeq(u, Len(u) - Len(t) + 1, Len(u)) = t

RECURSIVE SegmentEnd(_, _)
\* the last position of the path segment of uri that starts at position i
SegmentEnd(uri, i) ==
    IF i > Len(uri) \/ uri[i] \in {"/", "?", "#"} THEN i - 1
    ELSE SegmentEnd(uri, i + 1)

\* first path segment of scheme://authority/segment...
ContainerSegment(uri) == SubSeq(uri, 5, SegmentEnd(uri, 5))

\* the identifiers one event carries
IdsOf(e) ==
    IF IsRequest(e, "SasGrant") THEN {e.body.containerName}
    ELSE IF IsRequest(e, "ContainerPut") \/ IsRequest(e, "BlobPut")
         THEN {ContainerSegment(e.uri)}
    ELSE IF IsRequest(e, "JobPut")
         THEN {e.body.id, SubSeq(e.uri, IndexOf(e.uri, "/jobs/", 0) + 2, Len(e.uri))}
    ELSE IF e.kind = "return" /\ e.val.def THEN {e.val.val}
    ELSE {}

IdsUsed == UNION { IdsOf(trace[i]) : i \in 1..Len(trace) }

IsPositiveInteger(v) == ~v.nan /\ ~v.neg /\ v.m > 0 /\ v.e >= 0

NamePromptDismissed == pc \notin {"Start", "AwaitJobName"} /\ ~jobName.def
ShotsPromptDismissed ==
    pc \notin {"Start", "AwaitJobName", "AwaitShots"} /\ ~shotsResult.def

----------------------------------------------------------------------------
(* C1 .. C8: submitJob *)

\* C1: if the user cancels at the job-name prompt or at the shot-count prompt,
\* the submission aborts and no network call is performed: once either prompt
\* has returned 'none' the trace holds no request, and a cancelled shots prompt
\* ends the function with a bare return.
C1_CancelMakesNoNetworkCall ==
    /\ (NamePromptDismissed \/ ShotsPromptDismissed) => ~AnyRequest
    /\ ShotsPromptDismissed => (pc = "Done" /\ ~returned.def)

SubmitOrder ==
    << <<"request", "SasGrant">>, <<"response", "SasGrant">>,
       <<"request", "ContainerPut">>, <<"response", "ContainerPut">>,
       <<"request", "BlobPut">>, <<"response", "BlobPut">>,
       <<"request", "JobPut">>, <<"response", "JobPut">>,
       <<"message", "">>, <<"return", "">> >>

\* C2: in every run that reaches the network the calls happen in the order
\* SAS-grant POST, container PUT, inputData blob PUT, job PUT, success message,
\* return of the job id; each is made only after the previous one completed
\* successfully, and a run that returns the id has made all of them.
C2_SubmitOrder ==
    LET t == AfterPrompts
    IN  /\ \A i \in 1..Len(t) :
              \/ i <= Len(SubmitOrder) /\ StepOf(t[i]) = SubmitOrder[i]
              \/ i = Len(t) /\ t[i].kind = "throw" /\ IsFailure(t[i - 1])
        /\ \A i \in 1..Len(t) :
              (t[i].kind = "response" /\ i + 1 <= Len(t)
                 /\ t[i + 1].kind \in {"request", "message"}) => t[i].ok
        /\ \A i \in 1..Len(t) :
              t[i].kind = "request" =>
                  t[i].method = (IF t[i].op = "SasGrant" THEN "POST" ELSE "PUT")
        /\ (outcome = "returned" /\ returned.def) =>
              /\ Len(t) = Len(SubmitOrder)
              /\ returned = t[Len(t)].val

C2_Witness ==
    /\ pc = "Done"
    /\ outcome = "returned"
    /\ returned.def
    /\ Len(AfterPrompts) = 10
    /\ Requested("BlobPut")

\* C3: when a network call of submitJob fails, the error leaves submitJob at
\* once: the failed response is followed by nothing but the throw, no success
\* message is shown, no job id is returned, and no request deletes the
\* container or blob already created.
C3_FailurePropagates ==
    /\ \A i \in 1..Len(trace) :
          IsFailure(trace[i]) =>
              /\ i = Len(trace) - 1
              /\ trace[Len(trace)].kind = "throw"
              /\ outcome = "threw"
              /\ pc = "Done"
              /\ ~returned.def
              /\ ~MessageShown
    /\ \A i \in 1..Len(trace) :
          trace[i].kind = "request" => trace[i].method # "DELETE"

C3_Witness ==
    /\ outcome = "threw"
    /\ Requested("BlobPut")
    /\ ~Requested("JobPut")
    /\ IsFailure(trace[Len(trace) - 1])
    /\ trace[Len(trace) - 1].op = "BlobPut"

\* C4: one generated identifier is used throughout a run: the containerName
\* of the SAS request, the container segment of the container PUT and of the
\* blob PUT, the id of the job description, the job id of the jobs endpoint
\* that receives the PUT, and the value returned are all the same guid.
C4_SingleIdentifier ==
    /\ Cardinality(IdsUsed) <= 1
    /\ \A id \in IdsUsed : id = containerName /\ Len(id) = 36

C4_Witness ==
    /\ outcome = "returned"
    /\ returned.def
    /\ Requested("SasGrant")
    /\ Requested("ContainerPut")
    /\ Requested("BlobPut")
    /\ Requested("JobPut")
    /\ IdsUsed = {returned.val}

\* C5: the shot count must parse as a positive integer: a text that is not a
\* positive integer (zero, negative, fractional, non-numeric) is never let
\* through by the shots prompt, and every job description that is PUT carries a
\* positive integer shot count.
C5_ShotsArePositiveIntegers ==
    /\ shotsResult.def => IsPositiveInteger(parseFloat(shotsResult.val))
    /\ \A i \in 1..Len(trace) :
          IsRequest(trace[i], "JobPut") =>
              /\ trace[i].body.inputParams.count # JsonNull
              /\ IsPositiveInteger(trace[i].body.inputParams.count)

\* C6: cancellation is only possible at the prompt step: after the SAS-grant
\* request no prompt is shown, and a run that issued it ends either by
\* returning the job id or by throwing, never with the no-result return.
C6_NoCancelAfterSas ==
    /\ \A i, j \in 1..Len(trace) :
          (i < j /\ IsRequest(trace[i], "SasGrant")) => trace[j].kind # "prompt"
    /\ (Requested("SasGrant") /\ pc = "Done") =>
          \/ outcome = "threw" /\ trace[Len(trace)].kind = "throw"
          \/ /\ outcome = "returned"
             /\ returned = Some(containerName)
             /\ trace[Len(trace)] = Returned(returned)

C6_Witness ==
    /\ pc = "Done"
    /\ Requested("SasGrant")
    /\ outcome = "returned"
    /\ trace[Len(trace)].kind = "return"

C8_SameGrant ==
    /\ Len(RequestsOf("SasGrant")) <= 1
    /\ \A i \in 1..Len(trace) :
          (IsRequest(trace[i], "ContainerPut") \/ IsRequest(trace[i], "BlobPut")) =>
              LET grant == sasResponse.val.sasUri
                  uri == trace[i].uri
              IN  /\ Len(RequestsOf("SasGrant")) = 1
                  /\ sasResponse.def
                  /\ UriScheme(uri) = UriScheme(grant)
                  /\ UriAuthority(uri) = UriAuthority(grant)
                  /\ QueryOf(grant) # <<>>
                  /\ IsSuffix(QueryOf(grant), QueryOf(uri))
    /\ \A i \in 1..Len(trace) :
          IsRequest(trace[i], "ContainerPut") =>
              /\ BeforeQuery(trace[i].uri) =
                    SubSeq(trace[i].uri, 1, 4) \o ContainerSegment(trace[i].uri)
              /\ QueryOf(trace[i].uri)[1] = "restype=container"
    /\ \A i \in 1..Len(trace) :
          IsRequest(trace[i], "BlobPut") =>
              /\ Len(RequestsOf("ContainerPut")) = 1
              /\ BeforeQuery(trace[i].uri) =
                    BeforeQuery(RequestsOf("ContainerPut")[1].uri)
                    \o <<"/", "inputData">>
              /\ \E h \in 1..Len(trace[i].headers) :
                    trace[i].headers[h] = <<"x-ms-blob-type", "BlockBlob">>

C8_Witness ==
    /\ Requested("BlobPut")
    /\ sasResponse.def
    /\ UriAuthority(sasResponse.val.sasUri) = "acct2.blob.core.windows.net"
    /\ IsSuffix(<<"se=2024%2D01", "&", "sig=x%2Fy">>, RequestsOf("BlobPut")[1].uri)

----------------------------------------------------------------------------
(* C10: queryWorkspaces *)

Picked(title) ==
    \E i \in 1..Len(trace) : trace[i].kind = "pick" /\ trace[i].title = title
TenantSignIn ==
    \E i \in 1..Len(trace) : trace[i].kind = "getSession" /\ Len(trace[i].scopes) = 2

\* the step of the discovery an event belongs to: 0 the first sign-in,
\* 1 FetchTenants, 2 SelectTenant, 3 AuthenticateTenant, 4 FetchSubscriptions,
\* 5 SelectSubscription, 6 FetchWorkspaces, 7 SelectWorkspace,
\* 8 BuildConnection (the connection is returned), 9 any other way to end
StepRank(e) ==
    IF e.kind = "getSession" THEN (IF Len(e.scopes) = 1 THEN 0 ELSE 3)
    ELSE IF e.kind \in {"request", "response"}
         THEN (IF e.op = "Tenants" THEN 1
               ELSE IF e.op = "Subscriptions" THEN 4 ELSE 6)
    ELSE IF e.kind = "pick"
         THEN (IF e.title = "Select a tenant" THEN 2
               ELSE IF e.title = "Select a subscription" THEN 5 ELSE 7)
    ELSE IF e.kind = "return" /\ e.val.def THEN 8
    ELSE 9

ListOf(env) == env.val.value.val

\* C10: the steps of queryWorkspaces occur only in the order FetchTenants,
\* SelectTenant, AuthenticateTenant, FetchSubscriptions, SelectSubscription,
\* FetchWorkspaces, SelectWorkspace, BuildConnection, each at most once; the
\* subscriptions are requested only after the tenant list came back non-empty
\* and a tenant of it was fixed, the workspaces only after a subscription of
\* the list was fixed, a connection is built only from a workspace of the
\* list, and both requests carry the token of the session in force after
\* AuthenticateTenant.
C10_DiscoveryOrder ==
    /\ \A i, j \in 1..Len(trace) :
          i < j =>
              /\ StepRank(trace[i]) <= StepRank(trace[j])
              /\ (StepRank(trace[i]) = StepRank(trace[j])
                    /\ trace[i].kind = trace[j].kind) =>
                    \/ StepRank(trace[i]) = 9
                    \/ /\ trace[i].kind = "getSession"
                       /\ j = i + 1
                       /\ trace[i].mode = "silent"
                       /\ trace[j].mode = "createIfNone"
    /\ Requested("Subscriptions") =>
          /\ \E i \in 1..Len(trace) :
                /\ trace[i].kind = "response" /\ trace[i].op = "Tenants"
                /\ trace[i].ok
          /\ ListLength(qw.tenants) > 0
          /\ qw.tenantId.def
          /\ \E k \in 1..ListLength(qw.tenants) :
                ListOf(qw.tenants)[k].tenantId = qw.tenantId.val
          /\ (ListLength(qw.tenants) > 1) = Picked("Select a tenant")
    /\ Requested("Workspaces") =>
          /\ Requested("Subscriptions")
          /\ ListLength(qw.subs) > 0
          /\ qw.subId.def
          /\ \E k \in 1..ListLength(qw.subs) :
                ListOf(qw.subs)[k].subscriptionId = qw.subId.val
          /\ RequestsOf("Workspaces")[1].uri = AzureUrisWorkspaces(qw.subId.val)
    /\ (outcome = "returned" /\ returned.def) =>
          /\ Requested("Workspaces")
          /\ qw.workspace.def
          /\ \E k \in 1..ListLength(qw.workspaces) :
                ListOf(qw.workspaces)[k] = qw.workspace.val
          /\ returned.val.id = qw.workspace.val.id
          /\ returned.val.tenantId = qw.tenantId.val
    /\ \A i \in 1..Len(trace) :
          (IsRequest(trace[i], "Subscriptions") \/ IsRequest(trace[i], "Workspaces")) =>
              /\ trace[i].token = qw.tenantAuth.val.accessToken
              /\ IF TenantSignIn
                 THEN \E x \in TenantSessions(qw.tenantId.val) :
                         trace[i].token = x.accessToken
                 ELSE trace[i].token = qw.firstAuth.val.accessToken

C10_Witness ==
    /\ outcome = "returned"
    /\ returned.def
    /\ Picked("Select a tenant")
    /\ TenantSignIn
    /\ Picked("Select a subscription")
    /\ Picked("Select a workspace")
    /\ qw.firstAuth.val.accessToken # qw.tenantAuth.val.accessToken
    /\ RequestsOf("Workspaces")[1].token = <<"token-for-", "t", "2">>

----------------------------------------------------------------------------
(* C11 - C17: queryWorkspaces *)

ErrorShown == \E i \in 1..Len(trace) : trace[i].kind = "error"
Answered(op) ==
    \E i \in 1..Len(trace) :
        trace[i].kind = "response" /\ trace[i].op = op /\ trace[i].ok

\* the quick-pick awaited last resolved to undefined
PickCancelled == qw.choice.def /\ ~qw.choice.val.def

\* the list of the level that was answered last
LastList ==
    IF Answered("Workspaces") THEN qw.workspaces
    ELSE IF Answered("Subscriptions") THEN qw.subs
    ELSE qw.tenants

\* queryWorkspaces ended at the level answered last because that level's
\* list has no entry
EmptyAbort ==
    /\ Answered("Tenants")
    /\ outcome = "returned"
    /\ ListLength(LastList) = 0

\* C11: when a quick-pick (tenant, subscription or workspace) resolves to
\* undefined, queryWorkspaces returns undefined, throws nothing, shows no error
\* message and does nothing after the pick but return; an abort on an empty
\* list is told apart from it by the error message it shows.
C11_CancelledPickIsSilent ==
    /\ PickCancelled =>
          /\ pc = "Done"
          /\ outcome = "returned"
          /\ returned = Undefined
          /\ ~ErrorShown
          /\ Len(trace) >= 2
          /\ trace[Len(trace)] = Returned(Undefined)
          /\ trace[Len(trace) - 1].kind = "pick"
    /\ EmptyAbort => ErrorShown /\ ~PickCancelled

C11_Witness ==
    /\ PickCancelled
    /\ Picked("Select a tenant")
    /\ Picked("Select a subscription")
    /\ Picked("Select a workspace")
    /\ outcome = "returned"

\* C12: when the tenant list comes back empty, queryWorkspaces returns
\* undefined at once: no session with a tenant scope is asked for and neither
\* the subscriptions nor the workspaces are requested.
C12_NoTenantsNoSignIn ==
    (Answered("Tenants") /\ ListLength(qw.tenants) = 0) =>
        /\ pc = "Done"
        /\ outcome = "returned"
        /\ returned = Undefined
        /\ ~TenantSignIn
        /\ ~Requested("Subscriptions")
        /\ ~Requested("Workspaces")
        /\ trace[Len(trace)] = Returned(Undefined)
        /\ trace[Len(trace) - 2] = Response("Tenants", "ok")

C12_Witness ==
    /\ Answered("Tenants")
    /\ qw.tenants = Some([value |-> Some(<<>>)])
    /\ outcome = "returned"
    /\ qw.firstAuth.val.account.type = "msa"

AnyPick == \E i \in 1..Len(trace) : trace[i].kind = "pick"

\* C13: a quick-pick is shown at a level exactly when the list of that level
\* has more than one entry; when the three lists have one entry each, no
\* quick-pick is shown and the connection is built from the only tenant, the
\* only subscription and the only workspace.
C13_PickOnlyWhenSeveral ==
    /\ Picked("Select a tenant")
          = (Answered("Tenants") /\ ListLength(qw.tenants) > 1)
    /\ Picked("Select a subscription")
          = (Answered("Subscriptions") /\ ListLength(qw.subs) > 1)
    /\ Picked("Select a workspace")
          = (Answered("Workspaces") /\ ListLength(qw.workspaces) > 1)
    /\ ( /\ Answered("Workspaces")
         /\ ListLength(qw.tenants) = 1
         /\ ListLength(qw.subs) = 1
         /\ ListLength(qw.workspaces) = 1 ) =>
            /\ ~AnyPick
            /\ ~qw.choice.def
            /\ outcome = "returned"
            /\ returned.def
            /\ returned.val.tenantId = ListOf(qw.tenants)[1].tenantId
            /\ RequestsOf("Workspaces")[1].uri
                  = AzureUrisWorkspaces(ListOf(qw.subs)[1].subscriptionId)
            /\ returned.val.id = ListOf(qw.workspaces)[1].id
            /\ returned.val.name = ListOf(qw.workspaces)[1].name
            /\ returned.val.endpointUri = FixedEndpoint(ListOf(qw.workspaces)[1])

C13_Witness ==
    /\ outcome = "returned"
    /\ returned.def
    /\ ListLength(qw.tenants) = 1
    /\ ListLength(qw.subs) = 1
    /\ ListLength(qw.workspaces) = 1
    /\ ~AnyPick

\* a tenant is fixed: the tenant list had an entry and, if a quick-pick was
\* shown for it, an item was picked
TenantChosen ==
    /\ Answered("Tenants")
    /\ ListLength(qw.tenants) > 0
    /\ pc # "AwaitTenantPick"
    /\ ~(PickCancelled /\ trace[Len(trace) - 1].title = "Select a tenant")

\* the first session is an "aad" account whose id starts with the tenant id
FirstSessionFits ==
    /\ qw.firstAuth.val.account.type = "aad"
    /\ StartsWith(qw.firstAuth.val.account.id, qw.tenantId.val)

\* C14: once the tenant is fixed, a session with the VSCODE_TENANT scope of
\* that tenant is asked for unless the first session is an "aad" account of
\* the tenant; the subscriptions are requested with the token of the session
\* so acquired, and with the first token only when the sign-in was skipped.
C14_TenantSignInUnlessFits ==
    /\ ~TenantChosen => ~TenantSignIn
    /\ TenantChosen =>
          /\ TenantSignIn = ~FirstSessionFits
          /\ \A i \in 1..Len(trace) :
                (trace[i].kind = "getSession" /\ Len(trace[i].scopes) = 2) =>
                    /\ trace[i].scopes = <<ArmMgmt, TenantScope(qw.tenantId.val)>>
                    /\ \A j \in 1..Len(trace) :
                          IsRequest(trace[j], "Subscriptions") => i < j
          /\ FirstSessionFits =>
                /\ Requested("Subscriptions")
                /\ RequestsOf("Subscriptions")[1].token
                      = qw.firstAuth.val.accessToken
          /\ (~FirstSessionFits /\ Requested("Subscriptions")) =>
                /\ qw.tenantAuth.val \in TenantSessions(qw.tenantId.val)
                /\ RequestsOf("Subscriptions")[1].token
                      = qw.tenantAuth.val.accessToken
                /\ RequestsOf("Subscriptions")[1].token
                      # qw.firstAuth.val.accessToken

C14_Witness ==
    /\ TenantChosen
    /\ qw.firstAuth.val.account.type = "aad"
    /\ qw.firstAuth.val.account.id = <<"t", "1", ".", "user">>
    /\ qw.tenantId.val = <<"t", "2">>
    /\ Requested("Subscriptions")
    /\ TenantSignIn

\* the level answered with a list of no entry (or with no list) ends
\* queryWorkspaces with an error message and a bare return
SoftAbortAt(op, env) ==
    (Answered(op) /\ ListLength(env) = 0) =>
        /\ pc = "Done"
        /\ outcome = "returned"
        /\ returned = Undefined
        /\ ErrorShown
        /\ \A i \in 1..Len(trace) :
              trace[i].kind = "request" =>
                  \E j \in (i + 1)..Len(trace) :
                      trace[j].kind = "response" /\ trace[j].op = trace[i].op

\* C15: when the tenant, subscription or workspace list has no entry, or the
\* response carries no list, queryWorkspaces shows an error message and
\* returns undefined; it does not throw and requests nothing further.
C15_EmptyListIsSoftAbort ==
    /\ SoftAbortAt("Tenants", qw.tenants)
    /\ SoftAbortAt("Subscriptions", qw.subs)
    /\ SoftAbortAt("Workspaces", qw.workspaces)

\* `https://${name}.`, the start of an endpoint that carries the workspace name
NamePrefix(workspace) == <<"https://">> \o workspace.name \o <<".">>

\* what follows the name prefix in a text that starts with it
AfterNamePrefix(workspace, text) ==
    SubSeq(text, Len(NamePrefix(workspace)) + 1, Len(text))

ConnectionReturned == outcome = "returned" /\ returned.def

\* C16 as stated: for a workspace <name> with the endpoint
\* https://<name>.<region>.host the connection's endpointUri is
\* https://<region>.host, and no connection returned by queryWorkspaces has an
\* endpointUri that begins with https://<name>.
C16_EndpointNeverStartsWithName ==
    ConnectionReturned =>
        LET workspace == qw.workspace.val
            endpointUri == workspace.properties.endpointUri
        IN  /\ (endpointUri.def /\ StartsWith(endpointUri.val, NamePrefix(workspace))) =>
                  returned.val.endpointUri
                    = <<"https://">> \o AfterNamePrefix(workspace, endpointUri.val)
            /\ ~StartsWith(returned.val.endpointUri, NamePrefix(workspace))

\* C16, amended: for a workspace <name> with the endpoint
\* https://<name>.<region>.host the connection's endpointUri is
\* https://<region>.host (the name prefix is removed once); an endpoint that
\* does not contain https://<name>. is stored as it is, a missing endpoint as
\* the empty string; the stored endpointUri begins with https://<name>. only
\* when what followed the removed prefix begins with <name>. itself (a
\* workspace named like its region).
C16_NamePrefixRemovedOnce ==
    ConnectionReturned =>
        LET workspace == qw.workspace.val
            endpointUri == workspace.properties.endpointUri
        IN  /\ (endpointUri.def /\ StartsWith(endpointUri.val, NamePrefix(workspace))) =>
                  returned.val.endpointUri
                    = <<"https://">> \o AfterNamePrefix(workspace, endpointUri.val)
            /\ (endpointUri.def /\ FindSub(endpointUri.val, NamePrefix(workspace), 1) = 0) =>
                  returned.val.endpointUri = endpointUri.val
            /\ ~endpointUri.def => returned.val.endpointUri = <<>>
            /\ StartsWith(returned.val.endpointUri, NamePrefix(workspace)) =>
                  /\ endpointUri.def
                  /\ StartsWith(endpointUri.val, NamePrefix(workspace))
                  /\ StartsWith(AfterNamePrefix(workspace, endpointUri.val),
                                workspace.name \o <<".">>)

C16_Witness ==
    /\ ConnectionReturned
    /\ qw.workspace.val.name = <<"ws", "1">>
    /\ qw.workspace.val.properties.endpointUri
          = Some(<<"https://", "ws", "1", ".", "westus", ".", "quantum.azure.com">>)
    /\ returned.val.endpointUri = <<"https://", "westus", ".", "quantum.azure.com">>

\* C17: the connection queryWorkspaces returns has one provider per provider
\* of the chosen workspace, each with an empty targets sequence, and an empty
\* jobs sequence.
C17_TargetsAndJobsStartEmpty ==
    ConnectionReturned =>
        LET providers == qw.workspace.val.properties.providers
        IN  /\ returned.val.jobs = <<>>
            /\ Len(returned.val.providers) = Len(providers)
            /\ \A k \in 1..Len(providers) :
                  /\ returned.val.providers[k].providerId = providers[k].providerId
                  /\ returned.val.providers[k].targets = <<>>

C17_Witness ==
    /\ ConnectionReturned
    /\ Len(returned.val.providers) = 2
    /\ returned.val.providers[1].providerId = "ionq"
    /\ returned.val.providers[2].targets = <<>>

----------------------------------------------------------------------------
(* C18 - C20: queryWorkspace *)

\* the provider-status list this call of queryWorkspace has received
StatusReceived ==
    /\ rf.providerStatus.def
    /\ rf.providerStatus.val.value.def
StatusValue == rf.providerStatus.val.value.val

\* C18: whatever queryWorkspace does to the connection, whether it returns or
\* throws and however often it is called, id, name, endpointUri and tenantId
\* stay what they were when it was first called; only providers and jobs
\* change.
C18_RefreshFrame ==
    /\ connection.id = snapshots[1].id
    /\ connection.name = snapshots[1].name
    /\ connection.endpointUri = snapshots[1].endpointUri
    /\ connection.tenantId = snapshots[1].tenantId
    /\ DOMAIN connection = DOMAIN snapshots[1]

C18_Witness ==
    /\ outcome = "threw"
    /\ Len(snapshots) = 2
    /\ connection.providers # snapshots[1].providers
    /\ connection.jobs # snapshots[1].jobs
    /\ connection.jobs # <<>>
    /\ connection.providers # <<>>

\* C19: with the same provider-status and jobs responses, every return of
\* queryWorkspace after the first leaves providers and jobs as the first
\* return left them, whatever the connection held at the start.
C19_RefreshIdempotent ==
    \A k \in 2..Len(snapshots) :
        /\ snapshots[k].providers = snapshots[2].providers
        /\ snapshots[k].jobs = snapshots[2].jobs
        /\ (pc = "Done" /\ outcome = "returned") =>
              /\ connection.providers = snapshots[2].providers
              /\ connection.jobs = snapshots[2].jobs

C19_Witness ==
    /\ Len(snapshots) = 3
    /\ snapshots[1] = FilledConnection
    /\ Len(snapshots[3].jobs) = 2
    /\ snapshots[3].jobs[1].creationTime = snapshots[3].jobs[2].creationTime
    /\ snapshots[3].jobs # server.jobs.val.value.val
    /\ Len(snapshots[3].providers) = 1
    /\ snapshots[3] # snapshots[1]

\* the response entries the exclusion policy of provider ids does not match
KeptEntries == { i \in 1..Len(StatusValue) : ~shouldExcludeProvider(StatusValue[i].id) }
ExcludedEntries == { i \in 1..Len(StatusValue) : shouldExcludeProvider(StatusValue[i].id) }

\* C20: once queryWorkspace has received a provider-status list of N entries
\* of which the exclusion policy matches M, connection.providers has N - M
\* entries, they are the entries not matched, in the order of the response,
\* and no providerId among them is matched by the policy.
C20_ExcludedProvidersDropped ==
    StatusReceived =>
        /\ Len(connection.providers) = Len(StatusValue) - Cardinality(ExcludedEntries)
        /\ \A i \in KeptEntries :
              LET k == Cardinality({ j \in KeptEntries : j <= i })
              IN  /\ connection.providers[k].providerId = StatusValue[i].id
                  /\ connection.providers[k].currentAvailability
                        = StatusValue[i].currentAvailability
        /\ \A k \in 1..Len(connection.providers) :
              ~shouldExcludeProvider(connection.providers[k].providerId)

C20_Witness ==
    /\ StatusReceived
    /\ Len(StatusValue) = 2
    /\ StatusValue[1].id = "microsoft-qc"
    /\ StatusValue[2].id = "ionq"
    /\ Len(connection.providers) = 1
    /\ connection.providers[1].providerId = "ionq"
    /\ outcome = "returned"

----------------------------------------------------------------------------
(* C21 - C24: queryWorkspace *)

\* the positions of the targets of a response entry that the exclusion policy
\* of target ids does not match
KeptTargets(entry) ==
    { t \in 1..Len(entry.targets) : ~shouldExcludeTarget(entry.targets[t].id) }

\* C21: once queryWorkspace has received a provider-status list, no provider
\* matched by the provider exclusion policy is in connection.providers,
\* whatever its targets are, and each provider that is kept holds exactly the
\* targets of its response entry that the target exclusion policy does not
\* match, in the order of the response.
C21_TargetsFilteredThenProviders ==
    StatusReceived =>
        /\ \A k \in 1..Len(connection.providers) :
              ~shouldExcludeProvider(connection.providers[k].providerId)
        /\ Len(connection.providers) = Cardinality(KeptEntries)
        /\ \A i \in KeptEntries :
              LET k == Cardinality({ j \in KeptEntries : j <= i })
                  entry == StatusValue[i]
                  targets == connection.providers[k].targets
              IN  /\ Len(targets) = Cardinality(KeptTargets(entry))
                  /\ \A t \in KeptTargets(entry) :
                        targets[Cardinality({ u \in KeptTargets(entry) : u <= t })]
                          = entry.targets[t]
                  /\ \A t \in 1..Len(targets) : ~shouldExcludeTarget(targets[t].id)

C21_Witness ==
    /\ StatusReceived
    /\ outcome = "returned"
    /\ Len(StatusValue) = 2
    /\ StatusValue[1].id = "microsoft-qc"
    /\ Len(StatusValue[1].targets) = 1
    /\ StatusValue[2].id = "ionq"
    /\ Len(StatusValue[2].targets) = 3
    /\ Len(connection.providers) = 1
    /\ Len(connection.providers[1].targets) = 2
    /\ connection.providers[1].targets[2].id = "ionq.qpu"

\* the jobs response this call of queryWorkspace has received carries a page
PageReceived == rf.jobs.def /\ rf.jobs.val.value.def
PageValue == rf.jobs.val.value.val

Descending(jobs) ==
    \A i, j \in 1..Len(jobs) : i < j => jobs[i].creationTime >= jobs[j].creationTime
StrictlyDescending(jobs) ==
    \A i, j \in 1..Len(jobs) : i < j => jobs[i].creationTime > jobs[j].creationTime
DistinctTimes(jobs) ==
    \A i, j \in 1..Len(jobs) : i # j => jobs[i].creationTime # jobs[j].creationTime

\* C22: connection.jobs is ordered by creationTime descending at every point
\* of every sequence of calls of queryWorkspace; when a call returns after a
\* non-empty page of distinct creationTimes, connection.jobs holds exactly
\* the records of that page, strictly descending by creationTime.
C22_JobsSortedDescending ==
    /\ Descending(connection.jobs)
    /\ \A k \in 1..Len(snapshots) : Descending(snapshots[k].jobs)
    /\ ( /\ pc = "Done"
         /\ outcome = "returned"
         /\ PageReceived
         /\ Len(PageValue) > 0
         /\ DistinctTimes(PageValue) ) =>
            /\ StrictlyDescending(connection.jobs)
            /\ Len(connection.jobs) = Len(PageValue)
            /\ \A i \in 1..Len(PageValue) :
                  \E j \in 1..Len(connection.jobs) : connection.jobs[j] = PageValue[i]

C22_Witness ==
    /\ pc = "Done"
    /\ outcome = "returned"
    /\ PageReceived
    /\ Len(PageValue) = 2
    /\ PageValue[1].creationTime < PageValue[2].creationTime
    /\ connection.jobs = <<PageValue[2], PageValue[1]>>

\* C23: when a call of queryWorkspace returns after a jobs page with no
\* record, connection.jobs is what it was before the call, and
\* connection.providers is what the provider-status response of the call
\* gives.
C23_EmptyPageKeepsJobs ==
    ( /\ pc = "Done"
      /\ outcome = "returned"
      /\ PageReceived
      /\ Len(PageValue) = 0 ) =>
         /\ connection.jobs = snapshots[Len(snapshots) - 1].jobs
         /\ StatusReceived
         /\ connection.providers = WithProviders(snapshots[1], StatusValue).providers
         /\ Len(connection.providers) = Cardinality(KeptEntries)

C23_Witness ==
    /\ pc = "Done"
    /\ outcome = "returned"
    /\ PageReceived
    /\ Len(PageValue) = 0
    /\ snapshots[1] = FilledConnection
    /\ connection.jobs = FilledConnection.jobs
    /\ connection.providers # FilledConnection.providers
    /\ Len(connection.providers) = 2

JobsRequests == SelectSeq(trace, LAMBDA e : IsRequest(e, "Jobs"))
ErrorsLogged == SelectSeq(trace, LAMBDA e : e.kind = "log" /\ e.level = "error")

\* C24: when the jobs response of a call of queryWorkspace carries a
\* nextLink, the call logs one error, requests the jobs only once, does not
\* throw, and returns with the records of that page, sorted, in
\* connection.jobs (with connection.jobs as it was when the page is empty);
\* without a nextLink no error is logged.
C24_NextLinkIsLoggedOnly ==
    /\ (PageReceived /\ rf.jobs.val.nextLink.def) =>
          /\ pc = "Done"
          /\ outcome = "returned"
          /\ Len(ErrorsLogged) = 1
          /\ Len(JobsRequests) = 1
          /\ trace[Len(trace)] = Returned(Undefined)
          /\ trace[Len(trace) - 1].kind = "log"
          /\ trace[Len(trace) - 2] = Response("Jobs", "ok")
          /\ IF Len(PageValue) > 0
             THEN /\ Descending(connection.jobs)
                  /\ Len(connection.jobs) = Len(PageValue)
                  /\ \A i \in 1..Len(PageValue) :
                        \E j \in 1..Len(connection.jobs) :
                            connection.jobs[j] = PageValue[i]
             ELSE connection.jobs = snapshots[Len(snapshots) - 1].jobs
    /\ ~(PageReceived /\ rf.jobs.val.nextLink.def) => Len(ErrorsLogged) = 0

C24_Witness ==
    /\ PageReceived
    /\ rf.jobs.val.nextLink.def
    /\ outcome = "returned"
    /\ Len(PageValue) = 2
    /\ snapshots[1] = FilledConnection
    /\ connection.jobs # FilledConnection.jobs
    /\ Len(ErrorsLogged) = 1

----------------------------------------------------------------------------
(* C25, C26: getAuthSession, as queryWorkspaces calls it *)

\* the vscode.authentication.getSession calls made so far, in order; call k
\* has ended when qw.getSessionResults has a k-th entry
GetSessionCalls == SelectSeq(trace, LAMBDA e : e.kind = "getSession")
YieldedNothing(r) == ~r.threw /\ ~r.session.def
YieldedSession(r) == ~r.threw /\ r.session.def

\* C25: getAuthSession starts with a silent getSession; the createIfNone
\* getSession is called exactly when the silent one of the same scopes has
\* resolved to no session, directly after it and once; it is not called
\* after a silent getSession that yielded a session.
C25_SilentFirst ==
    LET calls == GetSessionCalls
        results == qw.getSessionResults
    IN  /\ Len(results) <= Len(calls)
        /\ Len(calls) <= Len(results) + 1
        /\ Len(calls) > 0 => calls[1].mode = "silent"
        /\ \A k \in 1..Len(calls) :
              /\ calls[k].mode = "createIfNone" =>
                    /\ k > 1
                    /\ calls[k - 1].mode = "silent"
                    /\ calls[k - 1].scopes = calls[k].scopes
                    /\ YieldedNothing(results[k - 1])
              /\ (calls[k].mode = "silent" /\ k > 1) =>
                    /\ calls[k - 1].scopes # calls[k].scopes
                    /\ YieldedSession(results[k - 1])
              /\ (calls[k].mode = "silent" /\ k <= Len(results)
                     /\ YieldedNothing(results[k])) =>
                    /\ k < Len(calls)
                    /\ calls[k + 1].mode = "createIfNone"
                    /\ calls[k + 1].scopes = calls[k].scopes
              /\ (calls[k].mode = "silent" /\ k <= Len(results)
                     /\ YieldedSession(results[k]) /\ k < Len(calls)) =>
                    calls[k + 1].mode = "silent"

C25_Witness ==
    /\ Len(GetSessionCalls) = 4
    /\ Len(qw.getSessionResults) = 4
    /\ GetSessionCalls[2].mode = "createIfNone"
    /\ GetSessionCalls[4].mode = "createIfNone"
    /\ YieldedSession(qw.getSessionResults[4])
    /\ Requested("Subscriptions")

\* C26: when a getSession call, silent or createIfNone, throws, the exception
\* leaves getAuthSession and its caller: no further getSession call, no
\* request and no message follows, and queryWorkspaces ends by throwing.
C26_IdentityFailurePropagates ==
    LET calls == GetSessionCalls
        results == qw.getSessionResults
    IN  \A k \in 1..Len(results) :
            results[k].threw =>
                /\ k = Len(calls)
                /\ outcome = "threw"
                /\ pc = "Done"
                /\ trace[Len(trace)] = Thrown
                /\ trace[Len(trace) - 1] = calls[k]

C26_Witness ==
    /\ Len(qw.getSessionResults) = 4
    /\ qw.getSessionResults[4].threw
    /\ GetSessionCalls[4].mode = "createIfNone"
    /\ outcome = "threw"

----------------------------------------------------------------------------
(* C28: getJobFiles *)

\* the position in the trace of the first request of op, 0 if there is none
RequestIndex(op) ==
    IF Requested(op)
    THEN CHOOSE i \in 1..Len(trace) :
           /\ IsRequest(trace[i], op)
           /\ \A j \in 1..(i - 1) : ~IsRequest(trace[j], op)
    ELSE 0

\* C28: getJobFiles first POSTs the SAS grant request with the body
\* {containerName, blobName} of its parameters; the GET is issued once, only
\* after the grant was received, on decodeURI of the granted sasUri; a run
\* that returns gives back the text of the file the GET resolved to; a GET
\* that resolves to no file ends the run by throwing, with nothing returned.
C28_GrantThenGetThenText ==
    LET l == jf.val
        gets == RequestsOf("FileGet")
        grants == RequestsOf("SasGrant")
    IN  /\ pc # "Start" =>
              /\ trace[1] = Request("SasGrant", "azureRequest", "POST",
                                    QuantumUrisSasUri, l.token, <<>>,
                                    [containerName |-> l.containerName,
                                     blobName |-> l.blobName])
              /\ Len(grants) = 1
        /\ Len(gets) <= 1
        /\ Len(gets) = 1 =>
              /\ Answered("SasGrant")
              /\ trace[RequestIndex("FileGet") - 1] = Response("SasGrant", "ok")
              /\ l.sasResponse.def
              /\ gets[1].method = "GET"
              /\ gets[1].fn = "storageRequest"
              /\ gets[1].uri = decodeURI(l.sasResponse.val.sasUri)
        /\ outcome = "returned" =>
              /\ Answered("FileGet")
              /\ l.file.def
              /\ returned = l.file.val.text
              /\ returned.def
        /\ (Answered("FileGet") /\ ~l.file.def) =>
              /\ outcome = "threw"
              /\ returned = Undefined
              /\ trace[Len(trace)] = Thrown

\* a run whose grant needed decoding and that returned a non-empty text
C28_Witness ==
    /\ called = "getJobFiles"
    /\ outcome = "returned"
    /\ returned.val # <<>>
    /\ jf.val.sasResponse.val.sasUri # jf.val.sasUri.val
    /\ RequestsOf("FileGet")[1].uri = jf.val.sasUri.val

----------------------------------------------------------------------------
(* C27: no operation retries *)

IsAnyRequest(e) == e.kind = "request"
FailedResponseAt(i) == trace[i].kind = "response" /\ ~trace[i].ok

\* C27: in a run of submitJob, queryWorkspaces, queryWorkspace or getJobFiles
\* no request is issued twice (no two requests of the run have the same
\* function, method and URI, and none the same step); a response that reports
\* a failure answers the request directly before it, and the only thing that
\* follows it is the exception leaving the operation: no request, no
\* message, no return.
C27_NoRetry ==
    /\ \A i, j \in 1..Len(trace) :
          (IsAnyRequest(trace[i]) /\ IsAnyRequest(trace[j]) /\ i # j) =>
             /\ trace[i].op # trace[j].op
             /\ <<trace[i].fn, trace[i].method, trace[i].uri>>
                  # <<trace[j].fn, trace[j].method, trace[j].uri>>
    /\ \A i \in 1..Len(trace) :
          FailedResponseAt(i) =>
             /\ i > 1
             /\ IsRequest(trace[i - 1], trace[i].op)
             /\ i = Len(trace) - 1
             /\ trace[Len(trace)] = Thrown
             /\ outcome = "threw"
             /\ returned = Undefined
             /\ pc = "Done"

\* a run whose third request failed after two that succeeded
C27_Witness ==
    /\ Len(SelectSeq(trace, IsAnyRequest)) = 3
    /\ FailedResponseAt(Len(trace) - 1)
    /\ outcome = "threw"

----------------------------------------------------------------------------
(* C29: two refreshes of one connection *)

\* the positions in the trace where a request of op was answered successfully
OkResponses(op) ==
    { k \in 1..Len(trace) :
        /\ trace[k].ev.kind = "response"
        /\ trace[k].ev.op = op
        /\ trace[k].ev.ok }

Latest(positions) == CHOOSE k \in positions : \A m \in positions : m <= k

ProvidersAnswer(i) == conc[i].server.providerStatus.val.value.val
JobsAnswer(i) == conc[i].server.jobs.val.value.val

\* the connection after one whole call that was answered with sv
SerialRefresh(c, sv) ==
    LET c1 == WithProviders(c, sv.providerStatus.val.value.val)
        value == sv.jobs.val.value.val
    IN  IF Len(value) = 0 THEN c1 ELSE WithJobs(c1, value, sortTies)

\* the connection after call a, then call b, each run to its return
SerialOrder(a, b) ==
    SerialRefresh(SerialRefresh(snapshots[1], conc[a].server), conc[b].server)

BothReturned == \A i \in Calls : conc[i].outcome = "returned"

\* every step of call a came before every step of call b
RanBefore(a, b) ==
    \A k, m \in 1..Len(trace) :
        (trace[k].call = a /\ trace[m].call = b) => k < m

\* C29: each field of the connection is written on its own, at the step that
\* received it: the providers are those of the call whose provider-status
\* response came last, the jobs those of the call whose non-empty jobs page
\* came last, whichever call that is. Two calls that run one after the other
\* leave the result of that serial order; calls that interleave at their
\* awaits need not (C29_Witness).
C29_LastWriterPerField ==
    LET statusAt == OkResponses("ProviderStatus")
        pagesAt == { k \in OkResponses("Jobs") : Len(JobsAnswer(trace[k].call)) > 0 }
    IN  /\ connection.providers =
              IF statusAt = {} THEN snapshots[1].providers
              ELSE WithProviders(snapshots[1],
                                 ProvidersAnswer(trace[Latest(statusAt)].call)).providers
        /\ connection.jobs =
              IF pagesAt = {} THEN snapshots[1].jobs
              ELSE SortJobs(JobsAnswer(trace[Latest(pagesAt)].call), sortTies)
        /\ \A a, b \in Calls :
              (a # b /\ BothReturned /\ RanBefore(a, b)) =>
                  connection = SerialOrder(a, b)

\* both calls returned, call 1 started first, and the connection holds the
\* providers call 2 received with the jobs call 1 received: the result of
\* neither serial order
C29_Witness ==
    /\ BothReturned
    /\ trace[1].call = 1
    /\ connection # SerialOrder(1, 2)
    /\ connection # SerialOrder(2, 1)
    /\ connection.providers = SerialOrder(1, 2).providers
    /\ connection.jobs = SerialOrder(2, 1).jobs
    /\ connection.providers # SerialOrder(2, 1).providers
    /\ connection.jobs # SerialOrder(1, 2).jobs

----------------------------------------------------------------------------
(* C30: getPythonCodeForWorkspace *)

PyCalled == called = "getPythonCodeForWorkspace" /\ pc = "Done"

\* the id contains /subscriptions/S/resourceGroups/G
PyIdHasPattern == py.val.idForm \in {"arm", "prefixed", "short"}

\* the endpointUri of the workspace given to the function is
\* https://W.region.host
PyEndpointIsPrefixed ==
    \E label \in PyNames \cup {"shared"} :
        py.val.workspace.endpointUri
          = <<"https://", label, ".", py.val.region, ".">> \o PyHost

\* the endpointUri of the workspace given to the function is
\* https://region.host
PyEndpointIsRegional ==
    py.val.workspace.endpointUri = <<"https://", py.val.region, ".">> \o PyHost

\* C30 as stated: for an id that contains /subscriptions/S/resourceGroups/G
\* and an endpointUri https://W.region.host the derived values are S, G and
\* region.
C30_RegionOfPrefixedEndpoint ==
    (PyCalled /\ PyIdHasPattern /\ PyEndpointIsPrefixed) =>
        /\ py.val.locals.val.subscriptionId = Some(<<py.val.sub>>)
        /\ py.val.locals.val.resourceGroup = Some(<<py.val.group>>)
        /\ py.val.locals.val.location = Some(<<py.val.region>>)

\* C30, amended: for an id that contains /subscriptions/S/resourceGroups/G the
\* derived subscription is S and the resource group G; the derived region is
\* the first host label of the endpointUri the function is given: region for
\* https://region.host, which is what queryWorkspaces stores for a workspace
\* named W with the endpoint https://W.region.host, and W for an endpointUri
\* that still is https://W.region.host. With the three values the code names
\* them and the workspace name; without one of them it is the empty string.
C30_RegionIsFirstHostLabel ==
    PyCalled =>
        LET l == py.val.locals.val
            workspace == py.val.workspace
        IN  /\ PyIdHasPattern =>
                  /\ l.subscriptionId = Some(<<py.val.sub>>)
                  /\ l.resourceGroup = Some(<<py.val.group>>)
            /\ ~PyIdHasPattern =>
                  /\ l.subscriptionId = Undefined
                  /\ l.resourceGroup = Undefined
            /\ PyEndpointIsRegional => l.location = Some(<<py.val.region>>)
            /\ (py.val.origin = "queryWorkspaces" /\ py.val.endpointForm = "name.region")
                  => PyEndpointIsRegional
            /\ PyEndpointIsPrefixed => l.location = Some(<<workspace.endpointUri[2]>>)
            /\ workspace.endpointUri = <<>> => l.location = Undefined
            /\ returned.val =
                  IF l.subscriptionId.def /\ l.resourceGroup.def /\ l.location.def
                  THEN pythonCode(l.subscriptionId.val, l.resourceGroup.val,
                                  workspace.name, l.location.val)
                  ELSE <<>>

\* a workspace reported with https://W.region.host, stored by queryWorkspaces
\* as https://region.host, for which the code names S, G and region
C30_Witness ==
    /\ PyCalled
    /\ py.val.idForm = "arm"
    /\ py.val.origin = "queryWorkspaces"
    /\ py.val.endpointForm = "name.region"
    /\ py.val.name # py.val.region
    /\ returned.val = pythonCode(<<py.val.sub>>, <<py.val.group>>, <<py.val.name>>,
                                 <<py.val.region>>)

----------------------------------------------------------------------------
(* C31: getPythonCodeForWorkspace without a match *)

PyEndpointMatches == py.val.endpointForm \in {"name.region", "other.region", "region"}

\* C31: getPythonCodeForWorkspace always returns; for an id without the
\* subscription or the resource-group segment, and for an endpointUri that
\* is not https:// followed by a label and a dot, it returns the empty
\* string; what it returns is non-empty exactly when subscription, resource
\* group and location were all extracted.
C31_EmptyUnlessAllExtracted ==
    PyCalled =>
        LET l == py.val.locals.val
        IN  /\ outcome = "returned"
            /\ returned.def
            /\ ~PyIdHasPattern => returned.val = <<>>
            /\ ~PyEndpointMatches => returned.val = <<>>
            /\ returned.val # <<>> <=>
                  (l.subscriptionId.def /\ l.resourceGroup.def /\ l.location.def)
            /\ (PyIdHasPattern /\ PyEndpointMatches) => returned.val # <<>>

\* an id in the ARM form with an endpoint that has no dot: nothing is derived
\* for the location and the empty string is returned
C31_Witness ==
    /\ PyCalled
    /\ py.val.idForm = "arm"
    /\ py.val.endpointForm = "noDot"
    /\ py.val.locals.val.subscriptionId.def
    /\ ~py.val.locals.val.location.def
    /\ returned.val = <<>>

----------------------------------------------------------------------------
(* C32: a sign-in that fails *)

\* how the getSession calls of the running operation ended
AuthResults ==
    IF called = "queryWorkspaces" THEN qw.getSessionResults
    ELSE IF called = "queryWorkspace" THEN rf.getSessionResults
    ELSE <<>>

\* getSession call k threw, or it was the createIfNone call and resolved to
\* no session: getAuthSession threw or returned nothing
AuthThrewAt(k) == AuthResults[k].threw
AuthGaveNothingAt(k) ==
    GetSessionCalls[k].mode = "createIfNone" /\ YieldedNothing(AuthResults[k])

\* the operation ended right after getSession call k: that call is the last
\* event before the throw or the return, no connection is returned, and the
\* connection of a refresh is as it was when the call started
EndedAtAuth(k) ==
    /\ pc = "Done"
    /\ k = Len(GetSessionCalls)
    /\ trace[Len(trace) - 1] = GetSessionCalls[k]
    /\ trace[Len(trace)] \in {Thrown, Returned(Undefined)}
    /\ returned = Undefined
    /\ called = "queryWorkspaces" => connection = Undefined
    /\ called = "queryWorkspace" => connection = rf.atEntry.val

\* C32 as stated: when getAuthSession throws or returns nothing, the
\* operation ends there, no request follows, no connection is returned or
\* changed, and the caller is told of the failure: the operation throws or an
\* error message is shown.
C32_AuthFailureIsSurfaced ==
    \A k \in 1..Len(AuthResults) :
        (AuthThrewAt(k) \/ AuthGaveNothingAt(k)) =>
            /\ EndedAtAuth(k)
            /\ outcome = "threw" \/ ErrorShown

\* C32, amended: when getAuthSession throws or returns nothing, the operation
\* ends there, no request follows and no connection is returned or changed.
\* An exception of getSession leaves the operation as an exception;
\* a sign-in that returned nothing makes queryWorkspace throw, and makes
\* queryWorkspaces return undefined without an error message, as a cancelled
\* selection does.
C32_AuthFailureEndsOperation ==
    \A k \in 1..Len(AuthResults) :
        /\ (AuthThrewAt(k) \/ AuthGaveNothingAt(k)) => EndedAtAuth(k)
        /\ AuthThrewAt(k) => outcome = "threw"
        /\ (AuthGaveNothingAt(k) /\ called = "queryWorkspace") => outcome = "threw"
        /\ (AuthGaveNothingAt(k) /\ called = "queryWorkspaces") =>
              /\ outcome = "returned"
              /\ ~ErrorShown

\* the sign-in to the chosen tenant returned nothing and queryWorkspaces
\* returned undefined after the tenants request, before the subscriptions one
C32_Witness ==
    /\ called = "queryWorkspaces"
    /\ Len(AuthResults) = 4
    /\ AuthGaveNothingAt(4)
    /\ Requested("Tenants")
    /\ ~Requested("Subscriptions")
    /\ outcome = "returned"

----------------------------------------------------------------------------
(* C33: the exclusion policies over the life of a connection *)

\* the connection the caller holds: the one returned, then the one refreshed
HeldConnections ==
    (IF called = "queryWorkspaces" /\ outcome = "returned" /\ returned.def
     THEN {returned.val} ELSE {})
    \cup (IF connection # Undefined THEN {connection} ELSE {})

HoldsExcludedProvider(c) ==
    \E k \in 1..Len(c.providers) : shouldExcludeProvider(c.providers[k].providerId)

HoldsExcludedTarget(c) ==
    \E k \in 1..Len(c.providers) :
        \E t \in 1..Len(c.providers[k].targets) :
            shouldExcludeTarget(c.providers[k].targets[t].id)

\* C33 as stated: from the return of queryWorkspaces on and through every
\* refresh, the connection holds no provider that the provider exclusion
\* policy matches and no target that the target exclusion policy matches.
C33_NeverHoldsExcluded ==
    \A c \in HeldConnections : ~HoldsExcludedProvider(c) /\ ~HoldsExcludedTarget(c)

\* C33, amended: the connection never holds a target that the target policy
\* matches; it holds no provider that the provider policy matches once a
\* refresh has stored a provider-status response, and until then its
\* providers are the ones queryWorkspaces built from the workspace's list,
\* excluded ones among them.
C33_ExcludedOnlyUntilRefreshed ==
    \A c \in HeldConnections :
        /\ ~HoldsExcludedTarget(c)
        /\ HoldsExcludedProvider(c) =>
              \/ called = "queryWorkspaces"
              \/ /\ c.providers = snapshots[1].providers
                 /\ ~(rf.providerStatus.def /\ rf.providerStatus.val.value.def)
        /\ (called = "queryWorkspace" /\ rf.providerStatus.def
              /\ rf.providerStatus.val.value.def) => ~HoldsExcludedProvider(c)

\* queryWorkspaces returned a connection with an excluded provider, and a
\* refresh answered with an excluded target has returned: the connection
\* holds neither
C33_Witness ==
    /\ called = "queryWorkspace"
    /\ outcome = "returned"
    /\ HoldsExcludedProvider(snapshots[1])
    /\ \E k \in 1..Len(server.providerStatus.val.value.val) :
          \E t \in 1..Len(server.providerStatus.val.value.val[k].targets) :
             shouldExcludeTarget(server.providerStatus.val.value.val[k].targets[t].id)
    /\ Len(connection.providers) > 0
    /\ ~HoldsExcludedProvider(connection)
    /\ ~HoldsExcludedTarget(connection)

----------------------------------------------------------------------------
(* C34: a refresh that fails half way *)

FailedRequest(op) ==
    \E i \in 1..Len(trace) :
        trace[i].kind = "response" /\ trace[i].op = op /\ ~trace[i].ok

\* C34: when the provider-status request of a refresh fails, the call throws
\* and the connection is as it was when the call began; when the
\* provider-status request succeeds and the jobs request then fails, the call
\* throws with the providers already replaced by the filtered providers of
\* the response, and with jobs and every other field as they were.
C34_RefreshNotAtomic ==
    /\ FailedRequest("ProviderStatus") =>
          /\ outcome = "threw"
          /\ connection = rf.atEntry.val
    /\ FailedRequest("Jobs") =>
          /\ outcome = "threw"
          /\ Answered("ProviderStatus")
          /\ connection.providers =
                FilteredProviders([k \in 1..Len(StatusValue) |-> ProviderOf(StatusValue[k])])
          /\ connection.jobs = rf.atEntry.val.jobs
          /\ connection = [rf.atEntry.val EXCEPT !.providers = connection.providers]

\* the jobs request failed on a connection that held jobs: its providers are
\* new, its jobs are the old ones
C34_Witness ==
    /\ called = "queryWorkspace"
    /\ FailedRequest("Jobs")
    /\ outcome = "threw"
    /\ connection.providers # rf.atEntry.val.providers
    /\ connection.jobs = rf.atEntry.val.jobs
    /\ Len(connection.jobs) > 0

----------------------------------------------------------------------------
(* C35: the two parses of the shots text *)

\* the text the payload is built from: what the prompt yielded, "100" when it
\* yielded nothing or the empty text
ShotsText == ShotsOrDefault(shotsResult).val

\* C35: for every text the shots validator accepts, parseInt of the text is
\* the integer parseFloat gave the validator, and count and shots of every
\* job description that is PUT are that integer; a prompt that yielded
\* nothing or the empty text gives 100.
C35_ValidatedValueIsSent ==
    /\ (shotsResult.def /\ ~validateShotsInput(shotsResult.val).def) =>
          parseInt(shotsResult.val) = parseFloat(shotsResult.val)
    /\ \A i \in 1..Len(trace) :
          IsRequest(trace[i], "JobPut") =>
              /\ trace[i].body.inputParams.count = JsonNumber(parseFloat(ShotsText))
              /\ trace[i].body.inputParams.shots = JsonNumber(parseFloat(ShotsText))
              /\ (~shotsResult.def \/ shotsResult.val = <<>>) =>
                    trace[i].body.inputParams.shots = Number(FALSE, 100, 0)

----------------------------------------------------------------------------
(* C36: what a returned connection is made of *)

\* C36: queryWorkspaces returns a connection only when the three lists it
\* fetched had entries and no quick-pick was cancelled; the connection's
\* tenantId is that of an entry of the tenant list (the only one when the
\* list has one entry), the workspaces were fetched for a subscription of
\* the subscription list, id and name are those of one entry of that
\* workspace list, and the providers are that entry's providers, one for one
\* and in order, Available exactly for provisioningState "Succeeded".
C36_ConnectionFromFetchedLists ==
    ConnectionReturned =>
        /\ Answered("Tenants") /\ ListLength(qw.tenants) > 0
        /\ Answered("Subscriptions") /\ ListLength(qw.subs) > 0
        /\ Answered("Workspaces") /\ ListLength(qw.workspaces) > 0
        /\ ~PickCancelled
        /\ \E k \in 1..ListLength(qw.tenants) :
              returned.val.tenantId = ListOf(qw.tenants)[k].tenantId
        /\ returned.val.tenantId = qw.tenantId.val
        /\ ListLength(qw.tenants) = 1 =>
              returned.val.tenantId = ListOf(qw.tenants)[1].tenantId
        /\ \E k \in 1..ListLength(qw.subs) :
              RequestsOf("Workspaces")[1].uri
                = AzureUrisWorkspaces(ListOf(qw.subs)[k].subscriptionId)
        /\ \E k \in 1..ListLength(qw.workspaces) :
              LET workspace == ListOf(qw.workspaces)[k]
                  providers == workspace.properties.providers
              IN  /\ returned.val.id = workspace.id
                  /\ returned.val.name = workspace.name
                  /\ Len(returned.val.providers) = Len(providers)
                  /\ \A n \in 1..Len(providers) :
                        /\ returned.val.providers[n].providerId = providers[n].providerId
                        /\ (returned.val.providers[n].currentAvailability = "Available")
                              = (providers[n].provisioningState = "Succeeded")
                        /\ returned.val.providers[n].currentAvailability
                              \in {"Available", "Unavailable"}

\* a connection returned after three quick-picks, for a tenant that is not
\* the first of its list, with one provider Available and one Unavailable
C36_Witness ==
    /\ ConnectionReturned
    /\ Picked("Select a tenant")
    /\ Picked("Select a subscription")
    /\ Picked("Select a workspace")
    /\ returned.val.tenantId # ListOf(qw.tenants)[1].tenantId
    /\ Len(returned.val.providers) = 2
    /\ returned.val.providers[1].currentAvailability = "Available"
    /\ returned.val.providers[2].currentAvailability = "Unavailable"

----------------------------------------------------------------------------
(* C9 *)

\* position (1-based) in the 36-character guid of the first hex digit of octet i
OctetPos(i) ==
    2 * i + 1 + (IF i >= 4 THEN 1 ELSE 0) + (IF i >= 6 THEN 1 ELSE 0)
              + (IF i >= 8 THEN 1 ELSE 0) + (IF i >= 10 THEN 1 ELSE 0)

OctetOf(g, i) == 16 * HexValue(g[OctetPos(i)]) + HexValue(g[OctetPos(i) + 1])

DashPositions == {9, 14, 19, 24}

\* C9: for every 16-byte input getRandomGuid returns 32 lowercase hex digits
\* grouped 8-4-4-4-12 with dashes, the first digit of the third group is 4, the
\* first digit of the fourth group is one of 8, 9, a, b, and every other bit
\* is the corresponding bit of the random input.
C9_GuidLayout ==
    pc = "Done" =>
        /\ Len(guid) = 36
        /\ \A p \in 1..36 :
              IF p \in DashPositions THEN guid[p] = "-" ELSE IsHexDigit(guid[p])
        /\ guid[15] = "4"
        /\ guid[20] \in {"8", "9", "a", "b"}
        /\ \A i \in (0..15) \ {6, 8} : OctetOf(guid, i) = bytes[i]
        /\ OctetOf(guid, 6) % 16 = bytes[6] % 16
        /\ OctetOf(guid, 8) % 64 = bytes[8] % 64

C9_Witness ==
    /\ pc = "Done"
    /\ bytes[6] = 255
    /\ bytes[8] = 0
    /\ bytes[0] = 90
    /\ guid[15] = "4"
    /\ guid[16] = "f"
    /\ guid[20] = "8"

====
